---- MODULE Spec2Model ----
(***************************************************************************)
(* Scribe: the YouTube transcript acquisition pipeline (src/src/types.ts). *)
(* Strings are sequences of one-character strings, so that trimming,       *)
(* case folding, prefix tests and pattern matches are computed.            *)
(***************************************************************************)
EXTENDS Integers, Sequences, FiniteSets, TLC

\* ------------------------------------------------------------------------
\* Characters and strings
\* ------------------------------------------------------------------------

LowerAlpha ==
    << "a","b","c","d","e","f","g","h","i","j","k","l","m",
       "n","o","p","q","r","s","t","u","v","w","x","y","z" >>

UpperAlpha ==
    << "A","B","C","D","E","F","G","H","I","J","K","L","M",
       "N","O","P","Q","R","S","T","U","V","W","X","Y","Z" >>

DigitChars == << "0","1","2","3","4","5","6","7","8","9" >>

Digits == { "0","1","2","3","4","5","6","7","8","9" }

Range(s) == { s[i] : i \in DOMAIN s }

\* The character class [a-zA-Z0-9_-] of the identifier patterns.
IdChars == Range(LowerAlpha) \cup Range(UpperAlpha) \cup Digits \cup { "_", "-" }

\* What String.prototype.trim removes (the white space used in the model).
WhiteSpace == { " ", "\n", "\t" }

\* One character of String.prototype.toLowerCase.
ToLowerChar(c) ==
    IF \E i \in DOMAIN UpperAlpha : UpperAlpha[i] = c
    THEN LowerAlpha[CHOOSE i \in DOMAIN UpperAlpha : UpperAlpha[i] = c]
    ELSE c

\* String.prototype.toLowerCase
ToLowerCase(s) == [ i \in DOMAIN s |-> ToLowerChar(s[i]) ]

\* String.prototype.startsWith
StartsWith(s, p) == Len(p) <= Len(s) /\ SubSeq(s, 1, Len(p)) = p

\* s.slice(i0) with i0 a 0-based index: the characters after the first i0.
SliceFrom(s, i0) == SubSeq(s, i0 + 1, Len(s))

Min(a, b) == IF a <= b THEN a ELSE b

\* The least element of a non-empty set of integers, or otherwise when empty.
MinOr(S, otherwise) == IF S = {} THEN otherwise ELSE CHOOSE i \in S : \A j \in S : i <= j

\* The greatest element of a non-empty set of integers, or otherwise when empty.
MaxOr(S, otherwise) == IF S = {} THEN otherwise ELSE CHOOSE i \in S : \A j \in S : j <= i

\* String.prototype.trim
Trim(s) ==
    SubSeq(s, MinOr({ i \in DOMAIN s : s[i] \notin WhiteSpace }, 1),
              MaxOr({ i \in DOMAIN s : s[i] \notin WhiteSpace }, 0))

\* 1-based index of the first occurrence of a character of cs in s at or after
\* position from, or Len(s) + 1 when there is none.
FirstOf(s, cs, from) == MinOr({ i \in from..Len(s) : s[i] \in cs }, Len(s) + 1)

\* Whether p occurs in s starting at 1-based position i.
MatchAt(s, p, i) == i >= 1 /\ i + Len(p) - 1 <= Len(s) /\ SubSeq(s, i, i + Len(p) - 1) = p

\* ------------------------------------------------------------------------
\* Video ID extraction
\* ------------------------------------------------------------------------

\* The {11} of the identifier patterns.
VideoIdLen == 11

\* IsVideoId with the character class [a-zA-Z0-9] (no "_" and no "-").
IsVideoIdAlnum(s) ==
    Len(s) = VideoIdLen /\ \A i \in DOMAIN s : s[i] \in Range(LowerAlpha) \cup Range(UpperAlpha) \cup Digits

\* IsVideoId with the quantifier {1,11}: shorter candidates pass.
IsVideoIdAtMost(s) ==
    Len(s) >= 1 /\ Len(s) <= VideoIdLen /\ \A i \in DOMAIN s : s[i] \in IdChars

\* /^[a-zA-Z0-9_-]{11}$/.test(s)
IsVideoId(s) == Len(s) = VideoIdLen /\ \A i \in DOMAIN s : s[i] \in IdChars

\* An [a-zA-Z0-9_-]{11} group starting at 1-based position i of s.
IdRunAt(s, i) ==
    /\ i >= 1
    /\ i + VideoIdLen - 1 <= Len(s)
    /\ \A j \in i..(i + VideoIdLen - 1) : s[j] \in IdChars

\* The absent value (null or undefined) of a string-valued expression.
NoStr == << "<null>" >>

\* The absent value (null or undefined) of an object-valued expression.
NoRec == [ absent |-> TRUE ]

STR_http == << "h","t","t","p" >>
STR_https_slashes == << "h","t","t","p","s",":","/","/" >>
STR_www_dot == << "w","w","w","." >>
STR_youtu_be == << "y","o","u","t","u",".","b","e" >>
STR_youtube_com == << "y","o","u","t","u","b","e",".","c","o","m" >>
STR_m_youtube_com == << "m","." >> \o STR_youtube_com
STR_v_eq == << "v","=" >>
STR_embed == << "/","e","m","b","e","d","/" >>
STR_v == << "/","v","/" >>
STR_shorts == << "/","s","h","o","r","t","s","/" >>

\* The percent escapes the model decodes (URLSearchParams decodes every %XX;
\* these are the ones whose character is an identifier character or a separator).
PercentTable ==
    { << <<"6","6">>, "f" >>, << <<"4","1">>, "A" >>, << <<"3","0">>, "0" >>,
      << <<"2","D">>, "-" >>, << <<"2","d">>, "-" >>, << <<"5","F">>, "_" >>,
      << <<"5","f">>, "_" >>, << <<"2","F">>, "/" >>, << <<"2","0">>, " " >> }

\* The character of the escape %XX for the pair XX.
PercentChar(pair) ==
    IF \E e \in PercentTable : e[1] = pair
    THEN (CHOOSE e \in PercentTable : e[1] = pair)[2]
    ELSE "#"

HexDigits == Digits \cup { "a","b","c","d","e","f","A","B","C","D","E","F" }

\* application/x-www-form-urlencoded decoding of one query value: "+" is a
\* space, %XX is the escaped character (a character outside the table decodes to
\* "#", which is no identifier character), anything else stands for itself.
RECURSIVE FormDecode(_)
FormDecode(s) ==
    IF s = << >> THEN << >>
    ELSE IF s[1] = "+" THEN << " " >> \o FormDecode(Tail(s))
    ELSE IF s[1] = "%" /\ Len(s) >= 3 /\ s[2] \in HexDigits /\ s[3] \in HexDigits
         THEN << PercentChar(<< s[2], s[3] >>) >> \o FormDecode(SubSeq(s, 4, Len(s)))
    ELSE << s[1] >> \o FormDecode(Tail(s))

\* s.split(sep) for a one-character separator.
RECURSIVE Split(_, _), SplitAt(_, _, _)
Split(s, sep) == SplitAt(s, sep, FirstOf(s, { sep }, 1))

SplitAt(s, sep, cut) ==
    IF cut > Len(s) THEN << s >>
    ELSE << SubSeq(s, 1, cut - 1) >> \o Split(SubSeq(s, cut + 1, Len(s)), sep)

\* url.searchParams.get(name): the decoded value of the first pair of the query
\* whose decoded name is name, or NoStr.
\* The decoded name and value of one name=value pair of a query.
PairName(p) == FormDecode(SubSeq(p, 1, FirstOf(p, { "=" }, 1) - 1))

PairValue(p) == FormDecode(SubSeq(p, FirstOf(p, { "=" }, 1) + 1, Len(p)))

FirstPair(pairs, first) == IF first = 0 THEN NoStr ELSE PairValue(pairs[first])

PairsGet(pairs, name) ==
    FirstPair(pairs,
              MinOr({ i \in DOMAIN pairs : pairs[i] # << >> /\ PairName(pairs[i]) = name }, 0))

SearchParamsGet(query, name) == PairsGet(Split(query, "&"), name)

\* Characters a host of an http(s) URL cannot hold: the URL constructor throws.
ForbiddenHostChars == WhiteSpace \cup { "<", ">", "%", "^", "|", "[", "]", "#", "?", "/" }

\* What the URL constructor does by throwing.
BadURL == [ ok |-> FALSE, hostname |-> << >>, pathname |-> << >>, search |-> << >> ]

\* The scheme of s ends before position colon: a letter, then letters, digits,
\* "+", "-" or ".".
SchemeOk(s, colon) ==
    /\ colon <= Len(s)
    /\ colon > 1
    /\ ToLowerChar(s[1]) \in Range(LowerAlpha)
    /\ \A i \in 1..(colon - 1) :
          ToLowerChar(s[i]) \in Range(LowerAlpha) \cup Digits \cup { "+", "-", "." }

\* The path of an http(s) URL: "/" when empty, "\" read as "/".
NormalPath(rawPath) ==
    IF rawPath = << >> THEN << "/" >>
    ELSE [ i \in DOMAIN rawPath |-> IF rawPath[i] = "\\" THEN "/" ELSE rawPath[i] ]

\* The URL record of an http(s) URL whose host and port are given and whose
\* path starts at hostEnd and ends before pathEnd.
SpecialURL(s, host, port, hostEnd, pathEnd) ==
    IF \/ host = << >>
       \/ \E i \in DOMAIN host : host[i] \in ForbiddenHostChars
       \/ \E i \in DOMAIN port : port[i] \notin Digits
    THEN BadURL
    ELSE [ ok |-> TRUE, hostname |-> host,
           pathname |-> NormalPath(SubSeq(s, hostEnd, pathEnd - 1)),
           search |-> IF pathEnd <= Len(s) /\ s[pathEnd] = "?"
                      THEN SubSeq(s, pathEnd + 1, FirstOf(s, { "#" }, pathEnd) - 1)
                      ELSE << >> ]

\* hostport is the authority without its userinfo: the host is lower-cased,
\* the port follows the first ":".
HostPort(s, hostport, hostEnd) ==
    SpecialURL(s,
               ToLowerCase(SubSeq(hostport, 1, FirstOf(hostport, { ":" }, 1) - 1)),
               SubSeq(hostport, FirstOf(hostport, { ":" }, 1) + 1, Len(hostport)),
               hostEnd,
               FirstOf(s, { "?", "#" }, hostEnd))

\* The authority of an http(s) URL runs from hostStart to before hostEnd; its
\* userinfo ends at the last "@".
Authority(s, hostStart, hostEnd) ==
    HostPort(s,
             SubSeq(s, MaxOr({ i \in hostStart..(hostEnd - 1) : s[i] = "@" }, hostStart - 1) + 1,
                    hostEnd - 1),
             hostEnd)

\* The authority starts at hostStart, after the slashes that follow the scheme.
FromHost(s, hostStart) == Authority(s, hostStart, FirstOf(s, { "/", "\\", "?", "#" }, hostStart))

\* s has a scheme that ends before position colon.
FromScheme(s, colon, scheme) ==
    IF scheme \in { STR_http, STR_http \o << "s" >> }
    THEN FromHost(s, MinOr({ i \in (colon + 1)..Len(s) : s[i] \notin { "/", "\\" } }, Len(s) + 1))
    ELSE [ ok |-> TRUE, hostname |-> << >>,
           pathname |-> SubSeq(s, colon + 1, FirstOf(s, { "?", "#" }, colon + 1) - 1),
           search |-> << >> ]

URLAt(s, colon) ==
    IF SchemeOk(s, colon) THEN FromScheme(s, colon, ToLowerCase(SubSeq(s, 1, colon - 1)))
    ELSE BadURL

\* new URL(s) for an absolute URL: [ok, hostname, pathname, search]. The scheme
\* is the letters before the first ":"; without one the constructor throws. For
\* http and https the slashes after the scheme are skipped, the host runs to
\* the next "/", "?" or "#" (userinfo before "@" and a port after ":" are not
\* part of hostname), is lower-cased and must not be empty; the path runs to
\* "?" or "#" and is "/" when empty; the query runs to "#".
ParseStripped(s) == URLAt(s, FirstOf(s, { ":" }, 1))

\* The URL parser first removes every ASCII tab and newline from its input.
RECURSIVE StripTabNewline(_)
StripTabNewline(s) ==
    IF s = << >> THEN << >>
    ELSE (IF s[1] \in { "\t", "\n", "\r" } THEN << >> ELSE << s[1] >>)
         \o StripTabNewline(Tail(s))

ParseURL(s) == ParseStripped(StripTabNewline(s))

\* pathname.match(/^\/(shorts|embed|v)\/([a-zA-Z0-9_-]{11})/)?.[2]
\* The heads of pattern heads that match s at position i, followed by 11
\* identifier characters.
HeadsAt(s, heads, i) == { h \in heads : MatchAt(s, h, i) /\ IdRunAt(s, i + Len(h)) }

\* The identifier group of a match at position i, NoStr when i is 0.
GroupAt(s, heads, i) ==
    IF i = 0 THEN NoStr
    ELSE SubSeq(s, i + Len(CHOOSE h \in HeadsAt(s, heads, i) : TRUE),
                i + Len(CHOOSE h \in HeadsAt(s, heads, i) : TRUE) + VideoIdLen - 1)

PathMatch(pathname) ==
    GroupAt(pathname, { STR_shorts, STR_embed, STR_v },
            IF HeadsAt(pathname, { STR_shorts, STR_embed, STR_v }, 1) # {} THEN 1 ELSE 0)

\* trimmed.match(/(?:v=|\/(?:embed|v|shorts)\/)([a-zA-Z0-9_-]{11})/)?.[1] ?? null:
\* the leftmost position where one of the four heads is followed by 11
\* identifier characters.
LastResortHeads == { STR_v_eq, STR_embed, STR_v, STR_shorts }

LastResortMatch(trimmed) ==
    GroupAt(trimmed, LastResortHeads,
            MinOr({ i \in DOMAIN trimmed : HeadsAt(trimmed, LastResortHeads, i) # {} }, 0))

\* hostname.replace(/^www\./, "")
StripWww(hostname) ==
    IF StartsWith(hostname, STR_www_dot) THEN SliceFrom(hostname, 4) ELSE hostname

\* a ?? b for strings
OrElse(a, b) == IF a # NoStr THEN a ELSE b

\* The youtube.com branch: the v parameter, else the path pattern.
YoutubeComBranch(url, v) ==
    IF v # NoStr /\ v # << >> /\ IsVideoId(v) THEN v ELSE PathMatch(url.pathname)

\* The youtu.be branch (id is the first path segment) followed by the
\* youtube.com branch, for a parsed URL whose hostname lost its "www.".
HostBranches(url, hostname, id) ==
    IF hostname = STR_youtu_be /\ id # << >> /\ IsVideoId(id) THEN id
    ELSE IF hostname \in { STR_youtube_com, STR_m_youtube_com }
    THEN YoutubeComBranch(url, SearchParamsGet(url.search, << "v" >>))
    ELSE NoStr

\* The try block for the URL the constructor returned (or threw on).
TryBlock(url) ==
    IF ~url.ok THEN NoStr
    ELSE HostBranches(url, StripWww(url.hostname), Split(SliceFrom(url.pathname, 1), "/")[1])

\* The result of the try block of extractVideoId: an identifier, or NoStr when
\* the block falls through (no branch returned, or the URL constructor threw).
UrlBranch(trimmed) ==
    TryBlock(ParseURL(IF StartsWith(trimmed, STR_http) THEN trimmed
                      ELSE STR_https_slashes \o trimmed))

\* extractVideoId after input.trim()
ExtractFromTrimmed(trimmed) ==
    IF IsVideoId(trimmed) THEN trimmed
    ELSE OrElse(UrlBranch(trimmed), LastResortMatch(trimmed))

extractVideoId(input) == ExtractFromTrimmed(Trim(input))

\* ------------------------------------------------------------------------
\* Errors (lib/errors.ts) and outcomes
\* ------------------------------------------------------------------------

\* A thrown error: the class name and what the constructor was given. The name
\* "TypeError" is the runtime's own exception, no ScribeError.
Err(name, info) == [ ok |-> FALSE, error |-> name, info |-> info ]

VideoNotFoundError(info) == Err("VideoNotFoundError", info)

CaptionsDisabledError(info) == Err("CaptionsDisabledError", info)

LanguageNotAvailableError(language, available) ==
    Err("LanguageNotAvailableError", [ language |-> language, available |-> available ])

TranscriptionError(info) == Err("TranscriptionError", info)

\* The exception the runtime raises for a property read of null or a call of a
\* non-function; it is no ScribeError.
RuntimeTypeError(where) == Err("TypeError", [ where |-> where ])

\* The error classes transcribeVideo documents (spec section 7).
TypedErrors ==
    { "TranscriptionError", "VideoNotFoundError",
      "CaptionsDisabledError", "LanguageNotAvailableError" }

\* A normal return.
Ok(value) == [ ok |-> TRUE, value |-> value ]

\* HttpOk without the test of the status: every response counts as a success.
HttpOkUnchecked(status) == TRUE

\* Response.ok
HttpOk(status) == status >= 200 /\ status <= 299

\* ------------------------------------------------------------------------
\* Fetch YouTube page and extract embedded JSON data
\* ------------------------------------------------------------------------

CONSENT_COOKIE == "CONSENT=YES+cb.20210328-17-p0.en+FX+000"

FALLBACK_CLIENT_VERSION == "2.20241121.01.00"

\* The cookie parts pushed for the response headers, in header order: the
\* first ";" segment of every set-cookie header, unless it is empty.
RECURSIVE CookieParts(_)
CookieParts(headers) ==
    IF headers = << >> THEN << >>
    ELSE (IF headers[1].name = "set-cookie" /\ headers[1].first # ""
          THEN << headers[1].first >> ELSE << >>) \o CookieParts(Tail(headers))

\* One embedded JSON document of the page: null when the pattern does not match
\* or JSON.parse throws, the parsed document otherwise.
EmbeddedJson(e) == IF e.embed = "json" THEN e.doc ELSE NoRec

\* fetchPageData without the test of resp.ok: the body of any response is read.
fetchPageDataAnyStatus(videoId, resp) ==
    IF resp.net = "error" \/ ~resp.bodyOk
    THEN TranscriptionError([ tmpl |-> "Network error fetching YouTube page for video %s",
                              videoId |-> videoId, cause |-> TRUE ])
    ELSE Ok([ playerResponse |-> EmbeddedJson(resp.html.player),
              initialData |-> EmbeddedJson(resp.html.data),
              visitorData |-> resp.html.visitorData,
              clientVersion |-> IF resp.html.clientVersion = "absent"
                                THEN FALLBACK_CLIENT_VERSION
                                ELSE resp.html.clientVersion,
              cookies |-> << CONSENT_COOKIE >> \o CookieParts(resp.headers) ])

\* fetchPageData after the request settled with resp: the thrown error or the
\* PageData. cookies is the list of parts that join("; ") concatenates.
fetchPageData(videoId, resp) ==
    IF resp.net = "error"
    THEN TranscriptionError([ tmpl |-> "Network error fetching YouTube page for video %s",
                              videoId |-> videoId, cause |-> TRUE ])
    ELSE IF ~HttpOk(resp.status)
    THEN TranscriptionError([ tmpl |-> "HTTP %d fetching YouTube page for video %s",
                              status |-> resp.status, videoId |-> videoId ])
    ELSE IF ~resp.bodyOk
    THEN TranscriptionError([ tmpl |-> "Network error fetching YouTube page for video %s",
                              videoId |-> videoId, cause |-> TRUE ])
    ELSE Ok([ playerResponse |-> EmbeddedJson(resp.html.player),
              initialData |-> EmbeddedJson(resp.html.data),
              visitorData |-> resp.html.visitorData,
              clientVersion |-> IF resp.html.clientVersion = "absent"
                                THEN FALLBACK_CLIENT_VERSION
                                ELSE resp.html.clientVersion,
              cookies |-> << CONSENT_COOKIE >> \o CookieParts(resp.headers) ])

\* StatusOf that reads a missing player document as an error status.
StatusOfMissingIsError(pageData) ==
    IF pageData.playerResponse = NoRec THEN "ERROR"
    ELSE pageData.playerResponse.playabilityStatus.status

\* pageData.playerResponse?.playabilityStatus?.status ("absent" for undefined)
StatusOf(pageData) ==
    IF pageData.playerResponse = NoRec THEN "absent"
    ELSE pageData.playerResponse.playabilityStatus.status

\* pageData.playerResponse?.playabilityStatus?.reason ?? "unknown reason"
ReasonOf(pageData) ==
    IF pageData.playerResponse = NoRec THEN "unknown reason"
    ELSE IF pageData.playerResponse.playabilityStatus.reason = "absent" THEN "unknown reason"
    ELSE pageData.playerResponse.playabilityStatus.reason

\* NotPlayable without the exemption of the offline live stream.
NotPlayableUnlessOk(status) == status \notin { "absent", "" } /\ status # "OK"

\* status && status !== "OK" && status !== "LIVE_STREAM_OFFLINE"
NotPlayable(status) ==
    /\ status \notin { "absent", "" }
    /\ status # "OK"
    /\ status # "LIVE_STREAM_OFFLINE"

\* pageData.playerResponse?.captions?.playerCaptionsTracklistRenderer?.captionTracks ?? []
CaptionTracks(pageData) ==
    IF pageData.playerResponse = NoRec THEN << >>
    ELSE IF ~pageData.playerResponse.hasTracks THEN << >>
    ELSE pageData.playerResponse.captionTracks

\* LanguageCodes with the codes in reverse track order.
LanguageCodesReversed(tracks) ==
    [ i \in DOMAIN tracks |-> tracks[Len(tracks) + 1 - i].languageCode ]

\* tracks.map((t) => t.languageCode)
LanguageCodes(tracks) == [ i \in DOMAIN tracks |-> tracks[i].languageCode ]

\* ------------------------------------------------------------------------
\* Transcript params: recovered from the engagement panel, or built
\* ------------------------------------------------------------------------

TRANSCRIPT_PANEL == "engagement-panel-searchable-transcript"

\* extractTranscriptParams: [throws, params]. find() visits the panels in order
\* up to the first transcript panel; reading a property of a null panel on the
\* way throws. params is the first getTranscriptEndpoint params string of the
\* panel, NoStr when the panel holds none (or an empty one).
FindPanel(panels, first) ==
    IF first = 0 THEN [ throws |-> FALSE, params |-> NoStr ]
    ELSE IF panels[first].isNull THEN [ throws |-> TRUE, params |-> NoStr ]
    ELSE [ throws |-> FALSE, params |-> panels[first].params ]

PanelsIn(panels) ==
    FindPanel(panels,
              MinOr({ i \in DOMAIN panels :
                        panels[i].isNull \/ panels[i].panelIdentifier = TRANSCRIPT_PANEL }, 0))

extractTranscriptParams(initialData) ==
    PanelsIn(IF initialData.hasPanels THEN initialData.engagementPanels ELSE << >>)

STR_en == << "e","n" >>

\* The printable ASCII characters in code order: Ascii[i] has the code 31 + i
\* (the double quote, the backslash and the backtick are written by name).
\* The strings of the model are made of these.
Ascii ==
    << " ","!","QUOTE","#","$","%","&","'","(",")","*","+",",","-",".","/" >>
    \o DigitChars \o << ":",";","<","=",">","?","@" >>
    \o UpperAlpha \o << "[","BACKSLASH","]","^","_","BACKTICK" >>
    \o LowerAlpha \o << "{","|","}","~" >>

CharCode(ch) == 31 + CHOOSE i \in DOMAIN Ascii : Ascii[i] = ch

\* Buffer.from(s, "utf8")
Utf8(s) == [ i \in DOMAIN s |-> CharCode(s[i]) ]

\* One character of buf.toString("utf8"); a byte that is no printable ASCII
\* character is shown as one opaque character.
CodeChar(b) == IF b \in 32..126 THEN Ascii[b - 31] ELSE "U+FFFD"

\* buf.toString("utf8")
Utf8ToString(bytes) == [ i \in DOMAIN bytes |-> CodeChar(bytes[i]) ]

\* The base64 alphabet: B64[v + 1] is the character of the sextet v.
B64 == UpperAlpha \o LowerAlpha \o DigitChars \o << "+", "/" >>

ByteAt(bytes, i) == IF i <= Len(bytes) THEN bytes[i] ELSE 0

\* The sextet number p (0..3) of the three bytes b1 b2 b3.
Sextet(b1, b2, b3, p) ==
    IF p = 0 THEN b1 \div 4
    ELSE IF p = 1 THEN ((b1 % 4) * 16) + (b2 \div 16)
    ELSE IF p = 2 THEN ((b2 % 16) * 4) + (b3 \div 64)
    ELSE b3 % 64

\* Character p of group j (both from 0) of buf.toString("base64"): "=" where
\* the group has no byte for it.
Base64CharAt(bytes, j, p) ==
    IF 3 * j + p > Len(bytes) THEN "="
    ELSE B64[1 + Sextet(ByteAt(bytes, 3 * j + 1), ByteAt(bytes, 3 * j + 2),
                        ByteAt(bytes, 3 * j + 3), p)]

\* buf.toString("base64")
Base64Encode(bytes) ==
    [ k \in 1..(4 * ((Len(bytes) + 2) \div 3)) |->
        Base64CharAt(bytes, (k - 1) \div 4, (k - 1) % 4) ]

\* The sextet of a base64 character; "-" and "_" are read as "+" and "/".
B64Value(ch) ==
    IF ch = "-" THEN 62
    ELSE IF ch = "_" THEN 63
    ELSE (CHOOSE i \in DOMAIN B64 : B64[i] = ch) - 1

B64Chars == Range(B64) \cup { "-", "_" }

\* Byte q (0..2) of group j of the sextets v.
ByteOf(v, j, q) ==
    IF q = 0 THEN (v[4 * j + 1] * 4) + (v[4 * j + 2] \div 16)
    ELSE IF q = 1 THEN ((v[4 * j + 2] % 16) * 16) + (v[4 * j + 3] \div 4)
    ELSE ((v[4 * j + 3] % 4) * 64) + v[4 * j + 4]

DecodeSextets(v) ==
    [ i \in 1..((Len(v) * 6) \div 8) |-> ByteOf(v, (i - 1) \div 3, (i - 1) % 3) ]

IsB64Char(ch) == ch \in B64Chars

\* Buffer.from(s, "base64"): decoding ends at the first "=", characters outside
\* the alphabet are skipped, a last lone sextet gives no byte.
Base64Decode(s) ==
    DecodeSextets([ i \in DOMAIN SelectSeq(SubSeq(s, 1, FirstOf(s, { "=" }, 1) - 1), IsB64Char) |->
                      B64Value(SelectSeq(SubSeq(s, 1, FirstOf(s, { "=" }, 1) - 1), IsB64Char)[i]) ])

HexUpper == DigitChars \o << "A","B","C","D","E","F" >>

HexLower == DigitChars \o << "a","b","c","d","e","f" >>

\* The characters encodeURIComponent leaves as they are.
Unreserved == IdChars \cup { ".", "!", "~", "*", "'", "(", ")" }

EscapeByte(b) == << "%", HexUpper[(b \div 16) + 1], HexUpper[(b % 16) + 1] >>

\* encodeURIComponent, computed half by half.
RECURSIVE encodeURIComponent(_)
encodeURIComponent(s) ==
    IF s = << >> THEN << >>
    ELSE IF Len(s) = 1
    THEN (IF s[1] \in Unreserved THEN s ELSE EscapeByte(CharCode(s[1])))
    ELSE encodeURIComponent(SubSeq(s, 1, Len(s) \div 2))
         \o encodeURIComponent(SubSeq(s, (Len(s) \div 2) + 1, Len(s)))

HexValue(ch) == (CHOOSE i \in 1..16 : HexUpper[i] = ch \/ HexLower[i] = ch) - 1

\* Whether every "%" of s starts an escape %XX of an ASCII character
\* (decodeURIComponent throws URIError otherwise).
WellEscaped(s) ==
    \A i \in DOMAIN s :
        s[i] = "%" =>
            /\ i + 2 <= Len(s)
            /\ s[i + 1] \in HexDigits
            /\ s[i + 2] \in HexDigits
            /\ HexValue(s[i + 1]) < 8

\* The position i, or the "%" of the escape that position i lies in.
EscapeStart(s, i) ==
    IF s[i - 1] = "%" THEN i - 1 ELSE IF s[i - 2] = "%" THEN i - 2 ELSE i

\* A well-escaped string with every %XX replaced by its character, computed
\* half by half (a short string from its start); no escape is cut in two.
RECURSIVE Unescape(_), UnescapeAt(_, _)
Unescape(s) ==
    IF s = << >> THEN << >>
    ELSE IF s[1] = "%" /\ Len(s) <= 5
    THEN << CodeChar((16 * HexValue(s[2])) + HexValue(s[3])) >> \o Unescape(SubSeq(s, 4, Len(s)))
    ELSE IF Len(s) <= 3 THEN << s[1] >> \o Unescape(Tail(s))
    ELSE UnescapeAt(s, EscapeStart(s, (Len(s) \div 2) + 1))

UnescapeAt(s, cut) == Unescape(SubSeq(s, 1, cut - 1)) \o Unescape(SubSeq(s, cut, Len(s)))

\* decodeURIComponent: NoStr when it throws.
decodeURIComponent(s) == IF WellEscaped(s) THEN Unescape(s) ELSE NoStr

\* buildLangProto with the language code in field 1 and an empty field 2.
buildLangProtoField1(langCode) ==
    encodeURIComponent(Base64Encode(<< 10, Len(Utf8(langCode)) % 256 >> \o Utf8(langCode)
                                    \o << 18, 0 >> \o << 26, 0 >>))

\* buildLangProto: field 1 empty, field 2 the language code behind its length
\* byte, field 3 empty; base64, then URL-encoded.
buildLangProto(langCode) ==
    encodeURIComponent(Base64Encode(<< 10, 0 >> \o << 18, Len(Utf8(langCode)) % 256 >>
                                    \o Utf8(langCode) \o << 26, 0 >>))

PANEL_ID ==
    << "e","n","g","a","g","e","m","e","n","t","-","p","a","n","e","l","-","s","e","a","r","c","h","a","b","l","e","-","t","r","a","n","s","c","r","i","p","t","-","s","e","a","r","c","h","-","p","a","n","e","l" >>

\* TranscriptProto with a panel length byte that is one too small.
TranscriptProtoShortPanel(videoIdBytes, langProtoBytes, panelIdBytes) ==
    << 10, Len(videoIdBytes) % 256 >> \o videoIdBytes
    \o << 18, Len(langProtoBytes) % 256 >> \o langProtoBytes
    \o << 24, 1 >>
    \o << 42, (Len(panelIdBytes) - 1) % 256 >> \o panelIdBytes
    \o << 48, 1, 56, 1, 64, 1 >>

\* The Buffer.concat of buildTranscriptParams; every length is one byte.
TranscriptProto(videoIdBytes, langProtoBytes, panelIdBytes) ==
    << 10, Len(videoIdBytes) % 256 >> \o videoIdBytes
    \o << 18, Len(langProtoBytes) % 256 >> \o langProtoBytes
    \o << 24, 1 >>
    \o << 42, Len(panelIdBytes) % 256 >> \o panelIdBytes
    \o << 48, 1, 56, 1, 64, 1 >>

\* buildTranscriptParams: the token for {videoId, langCode}.
buildTranscriptParams(videoId, langCode) ==
    Base64Encode(TranscriptProto(Utf8(videoId), Utf8(buildLangProto(langCode)), Utf8(PANEL_ID)))

\* buf.indexOf(b, from0): the 1-based position of the first byte b at or after
\* the 0-based offset from0, 0 when there is none.
IndexOf(bytes, b, from0) == MinOr({ i \in (from0 + 1)..Len(bytes) : bytes[i] = b }, 0)

\* No field: the tag was not found, or its length byte is missing or zero.
NoBytes == << -1 >>

\* The length-delimited field whose tag is at the 1-based position tagPos:
\* subarray(tagPos + 2, tagPos + 2 + len) of the source, cut at the buffer's end.
FieldAt(bytes, tagPos) ==
    IF tagPos = 0 THEN NoBytes
    ELSE IF tagPos + 1 > Len(bytes) THEN NoBytes
    ELSE IF bytes[tagPos + 1] = 0 THEN NoBytes
    ELSE SubSeq(bytes, tagPos + 2, Min(tagPos + 1 + bytes[tagPos + 1], Len(bytes)))

\* The last lines of extractLangFromParams: the language field of the inner message.
LangOr(field) == IF field = NoBytes THEN STR_en ELSE Utf8ToString(field)

LangField(inner) == LangOr(FieldAt(inner, IndexOf(inner, 18, 0)))

LangOfInner(innerBase64) ==
    IF innerBase64 = NoStr THEN STR_en ELSE LangField(Base64Decode(innerBase64))

InnerLang(field) ==
    IF field = NoBytes THEN STR_en ELSE LangOfInner(decodeURIComponent(Utf8ToString(field)))

OuterField(decoded) == InnerLang(FieldAt(decoded, IndexOf(decoded, 18, 12)))

\* extractLangFromParams: the language a token carries, "en" on any decode
\* failure.
extractLangFromParams(params) == OuterField(Base64Decode(params))

\* ReuseOrBuild without the comparison of the languages: a token found in the
\* page is always reused.
ReuseOrBuildAnyLanguage(found, videoId, language) ==
    IF found.throws THEN found
    ELSE IF found.params # NoStr THEN found
    ELSE [ throws |-> FALSE, params |-> buildTranscriptParams(videoId, language) ]

\* Lines 606-627 of transcribeVideo: [throws, params], the token sent to the API.
ReuseOrBuild(found, videoId, language) ==
    IF found.throws THEN found
    ELSE IF /\ found.params # NoStr
            /\ ToLowerCase(extractLangFromParams(found.params)) = ToLowerCase(language)
    THEN found
    ELSE [ throws |-> FALSE, params |-> buildTranscriptParams(videoId, language) ]

ChooseTranscriptParams(pd, videoId, language) ==
    ReuseOrBuild(IF pd.initialData = NoRec
                 THEN [ throws |-> FALSE, params |-> NoStr ]
                 ELSE extractTranscriptParams(pd.initialData),
                 videoId, language)

\* ------------------------------------------------------------------------
\* Fetch transcript via Innertube API (Android client)
\* ------------------------------------------------------------------------

\* body.slice(0, 200)
BODY_SLICE == 200

\* fetchTranscriptViaApi that reads the error object of the body before the
\* status of the response.
fetchTranscriptViaApiBodyFirst(resp) ==
    IF resp.net = "error"
    THEN TranscriptionError([ tmpl |-> "Network error calling YouTube transcript API",
                              cause |-> TRUE ])
    ELSE IF resp.bodyOk /\ resp.body.parse = "object" /\ resp.body.error # NoRec
    THEN IF resp.body.error.status = "FAILED_PRECONDITION"
         THEN CaptionsDisabledError([ tmpl |-> "(API precondition failed)" ])
         ELSE TranscriptionError([ tmpl |-> "YouTube API error: %s",
                                   message |-> IF resp.body.error.message = "absent"
                                               THEN "Unknown API error"
                                               ELSE resp.body.error.message ])
    ELSE IF ~HttpOk(resp.status)
    THEN TranscriptionError([ tmpl |-> "YouTube transcript API returned HTTP %d: %s",
                              status |-> resp.status,
                              bodyChars |-> IF resp.bodyOk
                                            THEN Min(resp.body.len, BODY_SLICE) ELSE 0 ])
    ELSE IF ~resp.bodyOk \/ resp.body.parse = "fail"
    THEN TranscriptionError([ tmpl |-> "Failed to parse YouTube transcript API response",
                              cause |-> TRUE ])
    ELSE IF resp.body.parse = "null"
    THEN RuntimeTypeError("apiData[\"error\"]")
    ELSE Ok(resp.body)

\* fetchTranscriptViaApi after the request settled with resp: the thrown error
\* or the parsed body. A body is [len, parse, error, hasActions, actions]: parse
\* is "fail" (resp.json() rejects), "null" (the JSON literal null), "scalar"
\* (a JSON number or string) or "object".
fetchTranscriptViaApi(resp) ==
    IF resp.net = "error"
    THEN TranscriptionError([ tmpl |-> "Network error calling YouTube transcript API",
                              cause |-> TRUE ])
    ELSE IF ~HttpOk(resp.status)
    THEN TranscriptionError([ tmpl |-> "YouTube transcript API returned HTTP %d: %s",
                              status |-> resp.status,
                              bodyChars |-> IF resp.bodyOk
                                            THEN Min(resp.body.len, BODY_SLICE) ELSE 0 ])
    ELSE IF ~resp.bodyOk \/ resp.body.parse = "fail"
    THEN TranscriptionError([ tmpl |-> "Failed to parse YouTube transcript API response",
                              cause |-> TRUE ])
    ELSE IF resp.body.parse = "null"
    THEN RuntimeTypeError("apiData[\"error\"]")
    ELSE IF resp.body.parse = "object" /\ resp.body.error # NoRec
    THEN IF resp.body.error.status = "FAILED_PRECONDITION"
         THEN CaptionsDisabledError([ tmpl |-> "(API precondition failed)" ])
         ELSE TranscriptionError([ tmpl |-> "YouTube API error: %s",
                                   message |-> IF resp.body.error.message = "absent"
                                               THEN "Unknown API error"
                                               ELSE resp.body.error.message ])
    ELSE Ok(resp.body)

\* ------------------------------------------------------------------------
\* Parse transcript segments from API response
\* ------------------------------------------------------------------------

\* r.text ?? "" of every run, joined with "".
RECURSIVE JoinRuns(_)
JoinRuns(runs) ==
    IF runs = << >> THEN << >>
    ELSE (IF runs[1] = NoStr THEN << >> ELSE runs[1]) \o JoinRuns(Tail(runs))

\* content ?? runs?.map(...).join("") ?? ""
SnippetText(renderer) ==
    IF renderer.content # NoStr THEN renderer.content
    ELSE IF renderer.hasRuns THEN JoinRuns(renderer.runs)
    ELSE << >>

\* text.replace(/\n/g, " ").trim()
FlattenText(text) == Trim([ i \in DOMAIN text |-> IF text[i] = "\n" THEN " " ELSE text[i] ])

\* The inner loop over one action's initialSegments: [throws, segments]. An
\* item that is JSON null throws on the read of transcriptSegmentRenderer.
\* parseInt(renderer.startMs ?? "0", 10) and the same of endMs
StartMs(renderer) == IF renderer.hasStart THEN renderer.startMs ELSE 0

EndMs(renderer) == IF renderer.hasEnd THEN renderer.endMs ELSE 0

\* PushItem without the test of the text: an item whose text is empty is kept.
PushItemKeepEmpty(renderer, text) ==
    IF ~renderer.hasRenderer THEN << >>
    ELSE << [ text |-> text, startMs |-> StartMs(renderer),
              durationMs |-> EndMs(renderer) - StartMs(renderer) ] >>

\* The segments one item adds to result: none without a renderer or with an
\* empty text.
PushItem(renderer, text) ==
    IF ~renderer.hasRenderer \/ text = << >> THEN << >>
    ELSE << [ text |-> text, startMs |-> StartMs(renderer),
              durationMs |-> EndMs(renderer) - StartMs(renderer) ] >>

Prepend(segs, rest) == [ throws |-> rest.throws, segments |-> segs \o rest.segments ]

RECURSIVE ParseItems(_)
ParseItems(items) ==
    IF items = << >> THEN [ throws |-> FALSE, segments |-> << >> ]
    ELSE IF items[1].isNull THEN [ throws |-> TRUE, segments |-> << >> ]
    ELSE Prepend(PushItem(items[1], FlattenText(SnippetText(items[1]))),
                 ParseItems(Tail(items)))

\* The loop over the actions: the result of the first action whose parsed list
\* is not empty, [] when there is none. An action that is JSON null throws.
RECURSIVE ParseActions(_), FirstNonEmpty(_, _)
ParseActions(actions) ==
    IF actions = << >> THEN [ throws |-> FALSE, segments |-> << >> ]
    ELSE IF actions[1].isNull THEN [ throws |-> TRUE, segments |-> << >> ]
    ELSE IF ~actions[1].hasSegments \/ actions[1].initialSegments = << >>
    THEN ParseActions(Tail(actions))
    ELSE FirstNonEmpty(ParseItems(actions[1].initialSegments), Tail(actions))

\* FirstNonEmpty that goes on after a result: the segments of the later
\* actions are appended.
FirstNonEmptyMerging(result, later) ==
    IF result.throws THEN result ELSE Prepend(result.segments, ParseActions(later))

\* if (result.length > 0) return result; otherwise the loop goes on.
FirstNonEmpty(result, later) ==
    IF result.throws \/ Len(result.segments) > 0 THEN result ELSE ParseActions(later)

parseTranscriptSegments(apiResponse) ==
    ParseActions(IF apiResponse.parse = "object" /\ apiResponse.hasActions
                 THEN apiResponse.actions ELSE << >>)

\* ------------------------------------------------------------------------
\* Format conversion helpers
\* ------------------------------------------------------------------------

\* a % b of JavaScript for b > 0: the remainder takes the sign of a.
JsRem(a, b) == IF a >= 0 THEN a % b ELSE 0 - ((0 - a) % b)

\* String(n) for an integer n
RECURSIVE DecimalString(_)
DecimalString(n) ==
    IF n < 0 THEN << "-" >> \o DecimalString(0 - n)
    ELSE IF n < 10 THEN << DigitChars[n + 1] >>
    ELSE DecimalString(n \div 10) \o << DigitChars[(n % 10) + 1] >>

\* s.padStart(len, "0")
RECURSIVE PadStart(_, _)
PadStart(s, len) == IF Len(s) >= len THEN s ELSE PadStart(<< "0" >> \o s, len)

\* pad with the default length 2 whatever len is.
PadTwo(n, len) == PadStart(DecimalString(n), 2)

\* pad(n, len) of msToSrtTimestamp
Pad(n, len) == PadStart(DecimalString(n), len)

\* The template string of msToSrtTimestamp.
SrtTimestamp(hours, minutes, seconds, milliseconds) ==
    Pad(hours, 2) \o << ":" >> \o Pad(minutes, 2) \o << ":" >> \o Pad(seconds, 2)
    \o << "," >> \o Pad(milliseconds, 3)

SrtTimestampOf(totalSeconds, milliseconds) ==
    SrtTimestamp(totalSeconds \div 3600, JsRem(totalSeconds, 3600) \div 60,
                 JsRem(totalSeconds, 60), milliseconds)

msToSrtTimestamp(ms) == SrtTimestampOf(ms \div 1000, JsRem(ms, 1000))

\* parts.join(sep)
RECURSIVE Join(_, _)
Join(parts, sep) ==
    IF parts = << >> THEN << >>
    ELSE IF Len(parts) = 1 THEN parts[1]
    ELSE parts[1] \o sep \o Join(Tail(parts), sep)

\* CollapseSpaces that replaces nothing.
CollapseSpacesNot(s) == s

\* s.replace(/\s{2,}/g, " "): every maximal run of two or more white-space
\* characters becomes one space; a single white-space character stays.
RECURSIVE CollapseSpaces(_)
CollapseSpaces(s) ==
    IF s = << >> THEN << >>
    ELSE IF s[1] \in WhiteSpace /\ Len(s) >= 2 /\ s[2] \in WhiteSpace
    THEN << " " >> \o CollapseSpaces(
             SubSeq(s, MinOr({ i \in DOMAIN s : s[i] \notin WhiteSpace }, Len(s) + 1), Len(s)))
    ELSE << s[1] >> \o CollapseSpaces(Tail(s))

formatAsText(segments) ==
    Trim(CollapseSpaces(Join([ i \in DOMAIN segments |-> segments[i].text ], << " " >>)))

\* formatAsSrt with the duration as the end of the cue.
formatAsSrtEndIsDuration(segments) ==
    Join([ i \in DOMAIN segments |->
             DecimalString(i) \o << "\n" >>
             \o msToSrtTimestamp(segments[i].startMs)
             \o << " ","-","-",">"," " >>
             \o msToSrtTimestamp(segments[i].durationMs)
             \o << "\n" >> \o segments[i].text ],
         << "\n", "\n" >>)

formatAsSrt(segments) ==
    Join([ i \in DOMAIN segments |->
             DecimalString(i) \o << "\n" >>
             \o msToSrtTimestamp(segments[i].startMs)
             \o << " ","-","-",">"," " >>
             \o msToSrtTimestamp(segments[i].startMs + segments[i].durationMs)
             \o << "\n" >> \o segments[i].text ],
         << "\n", "\n" >>)

\* ------------------------------------------------------------------------
\* List available languages / main transcription function: the code that runs
\* between two suspension points
\* ------------------------------------------------------------------------

\* NoCaptions with the test tracks.length >= 0 in place of tracks.length > 0.
NoCaptionsAtLeastZero(pd, language, otherwise) ==
    IF Len(CaptionTracks(pd)) >= 0
    THEN LanguageNotAvailableError(language, LanguageCodes(CaptionTracks(pd)))
    ELSE otherwise

\* NoCaptions without the re-check of the track list.
NoCaptionsNoRecheck(pd, language, otherwise) == otherwise

\* The lack-of-captions disambiguation of transcribeVideo (lines 640-647 and
\* 656-663): with tracks, the language is unavailable; without, otherwise.
NoCaptions(pd, language, otherwise) ==
    IF Len(CaptionTracks(pd)) > 0
    THEN LanguageNotAvailableError(language, LanguageCodes(CaptionTracks(pd)))
    ELSE otherwise

\* tracks.find((t) => lower(t.languageCode).startsWith(lower(language)))?.kind === "asr"
MatchingTracks(tracks, language) ==
    { i \in DOMAIN tracks :
        StartsWith(ToLowerCase(tracks[i].languageCode), ToLowerCase(language)) }

\* IsAutoGeneratedIn with the last matching track in place of the first.
IsAutoGeneratedInLast(tracks, hits) == hits # {} /\ tracks[MaxOr(hits, 0)].kind = "asr"

IsAutoGeneratedIn(tracks, hits) == hits # {} /\ tracks[MinOr(hits, 0)].kind = "asr"

IsAutoGenerated(pd, language) ==
    IsAutoGeneratedIn(CaptionTracks(pd), MatchingTracks(CaptionTracks(pd), language))

\* FormatTranscript handing back the segments of "json" last to first.
FormatTranscriptReversed(format, segments) ==
    IF format = "text" THEN [ string |-> formatAsText(segments) ]
    ELSE IF format = "srt" THEN [ string |-> formatAsSrt(segments) ]
    ELSE [ segments |-> [ i \in DOMAIN segments |-> segments[Len(segments) + 1 - i] ] ]

\* The switch on format: a string for "text" and "srt", the segments for "json".
FormatTranscript(format, segments) ==
    IF format = "text" THEN [ string |-> formatAsText(segments) ]
    ELSE IF format = "srt" THEN [ string |-> formatAsSrt(segments) ]
    ELSE [ segments |-> segments ]

\* What a continuation hands back: the steps it ran (in order), the error it
\* threw (NoRec: none), the locals it set and the request it issued.
Stopped(steps, err, pd) ==
    [ steps |-> steps, thrown |-> err, pageData |-> pd, params |-> NoStr, post |-> NoRec ]

\* transcribeVideo from the settling of the page request to the next
\* suspension point (lines 596-636).
\* Lines 629-636: the API request is issued with the chosen params, unless
\* choosing them threw.
IssueApiRequest(pd, chosen) ==
    IF chosen.throws
    THEN Stopped(<< "pageData", "playability", "params" >>,
                 RuntimeTypeError("extractTranscriptParams"), pd)
    ELSE [ steps |-> << "pageData", "playability", "params", "apiPost" >>,
           thrown |-> NoRec,
           pageData |-> pd,
           params |-> chosen.params,
           post |-> [ to |-> "api", params |-> chosen.params,
                      visitorData |-> pd.visitorData ] ]

\* CheckPlayability without the check: the API request is issued at once.
CheckPlayabilitySkipped(videoId, language, pd) ==
    IssueApiRequest(pd, ChooseTranscriptParams(pd, videoId, language))

\* Lines 598-636: the playability check, then the params and the API request.
CheckPlayability(videoId, language, pd) ==
    IF NotPlayable(StatusOf(pd))
    THEN Stopped(<< "pageData", "playability" >>,
                 VideoNotFoundError([ videoId |-> videoId, reason |-> ReasonOf(pd) ]), pd)
    ELSE IssueApiRequest(pd, ChooseTranscriptParams(pd, videoId, language))

\* Line 596: fetchPageData threw, or returned the page data.
TranscribeFetched(videoId, language, fetched) ==
    IF ~fetched.ok THEN Stopped(<< >>, fetched, NoRec)
    ELSE CheckPlayability(videoId, language, fetched.value)

TranscribeAfterPage(videoId, language, resp) ==
    TranscribeFetched(videoId, language, fetchPageData(videoId, resp))

\* What a call ends with: the steps it ran and its result or error.
Ended(steps, result) == [ steps |-> steps, result |-> result ]

\* transcribeVideo from the settling of the API request to its end (lines 632-693).
\* Lines 652-693: the parsed segments are empty, or formatted and returned.
TranscribeParsed(videoId, language, format, pd, parsed) ==
    IF parsed.throws
    THEN Ended(<< "apiData", "parse" >>, RuntimeTypeError("parseTranscriptSegments"))
    ELSE IF Len(parsed.segments) = 0
    THEN Ended(<< "apiData", "parse" >>,
               NoCaptions(pd, language, CaptionsDisabledError([ videoId |-> videoId ])))
    ELSE Ended(<< "apiData", "parse", "format" >>,
               Ok([ videoId |-> videoId,
                    language |-> language,
                    isAutoGenerated |-> IsAutoGenerated(pd, language),
                    transcript |-> FormatTranscript(format, parsed.segments) ]))

\* Lines 632-652: the catch around fetchTranscriptViaApi, then the parse.
TranscribeAnswered(videoId, language, format, pd, api) ==
    IF ~api.ok
    THEN Ended(<< >>, IF api.error = "CaptionsDisabledError"
                      THEN NoCaptions(pd, language, api)
                      ELSE api)
    ELSE TranscribeParsed(videoId, language, format, pd, parseTranscriptSegments(api.value))

TranscribeAfterApi(videoId, language, format, pd, resp) ==
    TranscribeAnswered(videoId, language, format, pd, fetchTranscriptViaApi(resp))

\* TrackInfos without the fallback of the name.
TrackInfosNoFallback(tracks) ==
    [ i \in DOMAIN tracks |->
        [ code |-> tracks[i].languageCode,
          name |-> tracks[i].name,
          isAutoGenerated |-> tracks[i].kind = "asr" ] ]

\* tracks.map((t) => ({code, name, isAutoGenerated}))
TrackInfos(tracks) ==
    [ i \in DOMAIN tracks |->
        [ code |-> tracks[i].languageCode,
          name |-> IF tracks[i].name = NoStr THEN tracks[i].languageCode ELSE tracks[i].name,
          isAutoGenerated |-> tracks[i].kind = "asr" ] ]

\* listAvailableLanguages from the settling of the page request to its end.
ListFetched(videoId, fetched) ==
    IF ~fetched.ok THEN Ended(<< >>, fetched)
    ELSE IF NotPlayable(StatusOf(fetched.value))
    THEN Ended(<< "pageData", "playability" >>,
               VideoNotFoundError([ videoId |-> videoId ]))
    ELSE Ended(<< "pageData", "playability" >>,
               Ok([ languages |-> TrackInfos(CaptionTracks(fetched.value)) ]))

ListAfterPage(videoId, resp) == ListFetched(videoId, fetchPageData(videoId, resp))

\* ------------------------------------------------------------------------
\* The environment: what callers pass and what the network answers
\* ------------------------------------------------------------------------

STR_EN == << "E","N" >>
STR_de == << "d","e" >>
STR_fr == << "f","r" >>
STR_en_US == << "e","n","-","U","S" >>
STR_English == << "E","n","g","l","i","s","h" >>

\* Two identifiers (the README's example and one with "-" and "_").
ID_A == << "d","Q","w","4","w","9","W","g","X","c","Q" >>
ID_B == << "-","_","a","B","c","0","1","2","3","4","v" >>

\* What callers pass as input: a bare identifier, a youtu.be URL in white
\* space, and a string that holds no identifier.
Inputs ==
    { ID_A,
      << " " >> \o STR_https_slashes \o STR_youtu_be \o << "/" >> \o ID_B \o << "\n" >>,
      << "n","o","t"," ","a"," ","v","i","d","e","o" >> }

\* options.language: omitted (NoStr) or a code.
Languages == { NoStr, STR_en, STR_EN, STR_de, STR_fr }

\* options.format: omitted ("absent") or a TranscriptFormat.
Formats == { "absent", "srt", "json" }

CaptionTrack(code, kind, name) == [ languageCode |-> code, kind |-> kind, name |-> name ]

\* captionTracks of the player response: absent, empty, or a list.
TrackLists ==
    { [ hasTracks |-> FALSE, captionTracks |-> << >> ],
      [ hasTracks |-> TRUE, captionTracks |-> << >> ],
      [ hasTracks |-> TRUE,
        captionTracks |-> << CaptionTrack(STR_en, "absent", STR_English),
                             CaptionTrack(STR_de, "asr", NoStr) >> ],
      [ hasTracks |-> TRUE,
        captionTracks |-> << CaptionTrack(STR_en_US, "asr", NoStr),
                             CaptionTrack(STR_en, "absent", STR_English) >> ] }

\* playabilityStatus of the player response ("absent": the field is missing).
PlayabilityStatuses ==
    { [ status |-> "absent", reason |-> "absent" ],
      [ status |-> "", reason |-> "absent" ],
      [ status |-> "OK", reason |-> "absent" ],
      [ status |-> "LIVE_STREAM_OFFLINE", reason |-> "Offline." ],
      [ status |-> "ERROR", reason |-> "Video unavailable" ],
      [ status |-> "LOGIN_REQUIRED", reason |-> "absent" ] }

PlayerResponses ==
    { [ playabilityStatus |-> p, hasTracks |-> t.hasTracks, captionTracks |-> t.captionTracks ] :
        p \in PlayabilityStatuses, t \in TrackLists }

STR_asr == << "a","s","r" >>

\* A params string as the page carries it for the video ID_A: the fields of a
\* built one, with the track kind in field 1 of the inner message.
PageParams(kind, lang) ==
    Base64Encode(TranscriptProto(
        Utf8(ID_A),
        Utf8(encodeURIComponent(Base64Encode(<< 10, Len(kind) >> \o Utf8(kind)
                                             \o << 18, Len(lang) >> \o Utf8(lang)
                                             \o << 26, 0 >>))),
        Utf8(PANEL_ID)))

PARAMS_en == PageParams(STR_asr, STR_en)

PARAMS_de == PageParams(STR_asr, STR_de)

\* A params string that holds no language field.
PARAMS_other == Base64Encode(<< 10, 11 >> \o Utf8(ID_A) \o << 24, 1 >>)

Panel(id, params) == [ isNull |-> FALSE, panelIdentifier |-> id, params |-> params ]

NullPanel == [ isNull |-> TRUE, panelIdentifier |-> "absent", params |-> NoStr ]

\* ytInitialData documents: without engagementPanels, without a transcript
\* panel, with a transcript panel that holds no params, with params for en, for
\* de, with params that hold no language, and with a null in the panel list.
InitialDatas ==
    { [ hasPanels |-> FALSE, engagementPanels |-> << >> ],
      [ hasPanels |-> TRUE,
        engagementPanels |-> << Panel("engagement-panel-comments", NoStr) >> ],
      [ hasPanels |-> TRUE,
        engagementPanels |-> << Panel("engagement-panel-comments", NoStr),
                                Panel(TRANSCRIPT_PANEL, NoStr) >> ],
      [ hasPanels |-> TRUE,
        engagementPanels |-> << Panel(TRANSCRIPT_PANEL, PARAMS_en) >> ],
      [ hasPanels |-> TRUE,
        engagementPanels |-> << Panel(TRANSCRIPT_PANEL, PARAMS_de),
                                NullPanel >> ],
      [ hasPanels |-> TRUE,
        engagementPanels |-> << Panel(TRANSCRIPT_PANEL, PARAMS_other) >> ],
      [ hasPanels |-> TRUE,
        engagementPanels |-> << NullPanel, Panel(TRANSCRIPT_PANEL, PARAMS_en) >> ] }

\* An embedded document of the page: the pattern does not match, the text
\* is no JSON, or it parses to doc.
Embeds(docs) ==
    { [ embed |-> "absent", doc |-> NoRec ], [ embed |-> "malformed", doc |-> NoRec ] }
    \cup { [ embed |-> "json", doc |-> d ] : d \in docs }

Header(name, first) == [ name |-> name, first |-> first ]

\* The rest of a page: visitorData, INNERTUBE_CLIENT_VERSION and the response
\* headers, all present or all absent.
PageExtras ==
    { [ visitorData |-> "absent", clientVersion |-> "absent", headers |-> << >> ],
      [ visitorData |-> "CgtWaXNpdG9yQQ", clientVersion |-> "2.20250101.00.00",
        headers |-> << Header("set-cookie", "YSC=abc"), Header("content-type", "text/html"),
                       Header("set-cookie", ""), Header("set-cookie", "VISITOR_INFO1_LIVE=x") >> ] }

NoHtml ==
    [ player |-> [ embed |-> "absent", doc |-> NoRec ],
      data |-> [ embed |-> "absent", doc |-> NoRec ],
      visitorData |-> "absent", clientVersion |-> "absent" ]

PageResponse(net, status, bodyOk, headers, html) ==
    [ net |-> net, status |-> status, bodyOk |-> bodyOk, headers |-> headers, html |-> html ]

\* Pages built from player documents and initial data documents.
PagesOf(players, datas, extras) ==
    { PageResponse("response", 200, TRUE, x.headers,
                   [ player |-> p, data |-> d,
                     visitorData |-> x.visitorData, clientVersion |-> x.clientVersion ]) :
        p \in Embeds(players), d \in Embeds(datas), x \in extras }

\* The page requests that fail: the fetch rejects, the status is no success
\* (429: throttled), the body read rejects.
FailedPages ==
    { PageResponse("error", 0, FALSE, << >>, NoHtml),
      PageResponse("response", 429, TRUE, << >>, NoHtml),
      PageResponse("response", 404, TRUE, << >>, NoHtml),
      PageResponse("response", 200, FALSE, << >>, NoHtml) }

\* Every way the page request settles.
PageResponses == FailedPages \cup PagesOf(PlayerResponses, InitialDatas, PageExtras)

\* A transcriptSegmentRenderer item of the API response.
Item(startMs, endMs, content) ==
    [ isNull |-> FALSE, hasRenderer |-> TRUE, hasStart |-> TRUE, startMs |-> startMs,
      hasEnd |-> TRUE, endMs |-> endMs, content |-> content, hasRuns |-> FALSE, runs |-> << >> ]

\* An item whose text comes as runs and whose offsets are missing.
RunsItem(runs) ==
    [ isNull |-> FALSE, hasRenderer |-> TRUE, hasStart |-> FALSE, startMs |-> 0,
      hasEnd |-> FALSE, endMs |-> 0, content |-> NoStr, hasRuns |-> TRUE, runs |-> runs ]

\* An item without transcriptSegmentRenderer (a section header).
OtherItem ==
    [ isNull |-> FALSE, hasRenderer |-> FALSE, hasStart |-> FALSE, startMs |-> 0,
      hasEnd |-> FALSE, endMs |-> 0, content |-> NoStr, hasRuns |-> FALSE, runs |-> << >> ]

Action(hasSegments, items) ==
    [ isNull |-> FALSE, hasSegments |-> hasSegments, initialSegments |-> items ]

NullAction == [ isNull |-> TRUE, hasSegments |-> FALSE, initialSegments |-> << >> ]

Body(len, parse, error, hasActions, actions) ==
    [ len |-> len, parse |-> parse, error |-> error,
      hasActions |-> hasActions, actions |-> actions ]

ITEM_Hello == Item(0, 1500, << "H","e","l","l","o" >>)
ITEM_world == Item(1500, 3661001, << " ","w","o","r","\n","l","d"," " >>)
ITEM_blank == Item(10, 20, << " ","\n"," " >>)
ITEM_runs == RunsItem(<< << "H","i" >>, NoStr, << " "," ","y","o","u" >> >>)

\* The bodies of a success-status API response: unparseable, the JSON literal
\* null, a JSON scalar, the two kinds of error object, no actions, actions that
\* yield no segment, yield two, yield them from a later action, and a null
\* action.
ApiBodies ==
    { Body(15, "fail", NoRec, FALSE, << >>),
      Body(4, "null", NoRec, FALSE, << >>),
      Body(2, "scalar", NoRec, FALSE, << >>),
      Body(120, "object", [ status |-> "FAILED_PRECONDITION",
                            message |-> "Precondition check failed." ], FALSE, << >>),
      Body(90, "object", [ status |-> "absent", message |-> "absent" ], FALSE, << >>),
      Body(30, "object", NoRec, FALSE, << >>),
      Body(300, "object", NoRec, TRUE,
           << Action(FALSE, << >>), Action(TRUE, << ITEM_blank, OtherItem >>) >>),
      Body(900, "object", NoRec, TRUE, << Action(TRUE, << ITEM_Hello, ITEM_world >>) >>),
      Body(950, "object", NoRec, TRUE,
           << Action(TRUE, << ITEM_blank >>),
              Action(TRUE, << ITEM_runs, ITEM_blank, ITEM_Hello >>),
              Action(TRUE, << ITEM_world >>) >>),
      Body(60, "object", NoRec, TRUE, << NullAction >>) }

NoBody == Body(0, "fail", NoRec, FALSE, << >>)

ApiResponse(net, status, bodyOk, body) ==
    [ net |-> net, status |-> status, bodyOk |-> bodyOk, body |-> body ]

\* The API requests that fail: the fetch rejects, the status is no success
\* (429 with the error object of disabled captions in its body, 500 with an
\* unreadable body), the body read of a success rejects.
FailedApis ==
    { ApiResponse("error", 0, FALSE, NoBody),
      ApiResponse("response", 429, TRUE,
                  Body(120, "object", [ status |-> "FAILED_PRECONDITION",
                                        message |-> "Precondition check failed." ],
                       FALSE, << >>)),
      ApiResponse("response", 500, FALSE, NoBody),
      ApiResponse("response", 500, TRUE, Body(5000, "fail", NoRec, FALSE, << >>)),
      ApiResponse("response", 200, FALSE, NoBody) }

ApisOf(bodies) == { ApiResponse("response", 200, TRUE, b) : b \in bodies }

\* Every way the API request settles.
ApiResponses == FailedApis \cup ApisOf(ApiBodies)

\* ------------------------------------------------------------------------
\* The calls in flight
\* ------------------------------------------------------------------------

\* Two call slots: every invocation runs in one.
MaxCalls == 2

Calls == 1..MaxCalls

VARIABLES
    pc,         \* per call: "idle", "page" (awaiting the page), "api", "done"
    args,       \* per call: what the caller passed, NoRec when idle
    frame,      \* per call: the locals videoId, language, format
    pageData,   \* per call: the local pageData, NoRec before the page settled
    params,     \* per call: the local transcriptParams, NoStr before it is set
    requests,   \* per call: the requests issued so far, in order
    inFlight,   \* per call: the requests not yet settled
    seen,       \* per call: the responses received so far, in order
    trace,      \* per call: the steps run so far, in order
    result,     \* per call: what the call returned or threw, NoRec before
    providers   \* the providers array of the registry, in registration order

vars ==
    << pc, args, frame, pageData, params, requests, inFlight, seen, trace, result, providers >>

NoFrame == [ videoId |-> NoStr, language |-> NoStr, format |-> "absent" ]

Init ==
    /\ pc = [ c \in Calls |-> "idle" ]
    /\ args = [ c \in Calls |-> NoRec ]
    /\ frame = [ c \in Calls |-> NoFrame ]
    /\ pageData = [ c \in Calls |-> NoRec ]
    /\ params = [ c \in Calls |-> NoStr ]
    /\ requests = [ c \in Calls |-> << >> ]
    /\ inFlight = [ c \in Calls |-> {} ]
    /\ seen = [ c \in Calls |-> << >> ]
    /\ trace = [ c \in Calls |-> << >> ]
    /\ result = [ c \in Calls |-> NoRec ]
    /\ providers = << >>

\* The GET of fetchPageData.
PageRequest(videoId) == [ to |-> "page", videoId |-> videoId ]

\* PageDataOf reading a module-level cache of the page data fetched last by
\* any call, when there is one.
PageDataOfShared(c) ==
    IF \E d \in Calls \ { c } : pageData[d] # NoRec
    THEN pageData[CHOOSE d \in Calls \ { c } : pageData[d] # NoRec]
    ELSE pageData[c]

\* The local pageData a continuation of call c reads.
PageDataOf(c) == pageData[c]

\* transcribeVideo from its entry to the first suspension point (lines 586-596):
\* the defaults of the options, the identifier, and either the throw for an
\* input without identifier or the page request.
\* Resolved without the test of the identifier: the page is requested for
\* whatever extractVideoId returned.
ResolvedUnchecked(input, locals) ==
    [ steps |-> << "resolve", "pageGet" >>, frame |-> locals,
      get |-> PageRequest(locals.videoId), thrown |-> NoRec ]

\* Lines 588-596 for the identifier extractVideoId returned.
Resolved(input, locals) ==
    IF locals.videoId = NoStr
    THEN [ steps |-> << "resolve" >>, frame |-> locals, get |-> NoRec,
           thrown |-> TranscriptionError(
               [ tmpl |-> "Could not extract a valid YouTube video ID from: %s",
                 input |-> input ]) ]
    ELSE [ steps |-> << "resolve", "pageGet" >>, frame |-> locals,
           get |-> PageRequest(locals.videoId), thrown |-> NoRec ]

\* TranscribeStart with the language code normalised to lower case.
TranscribeStartNormalised(input, language, format) ==
    Resolved(input, [ videoId |-> extractVideoId(input),
                      language |-> IF language = NoStr THEN STR_en ELSE ToLowerCase(language),
                      format |-> IF format = "absent" THEN "text" ELSE format ])

TranscribeStart(input, language, format) ==
    Resolved(input, [ videoId |-> extractVideoId(input),
                      language |-> IF language = NoStr THEN STR_en ELSE language,
                      format |-> IF format = "absent" THEN "text" ELSE format ])

\* The effect of the first stretch of transcribeVideo on call c.
Started(c, out) ==
    /\ frame' = [ frame EXCEPT ![c] = out.frame ]
    /\ trace' = [ trace EXCEPT ![c] = out.steps ]
    /\ IF out.thrown # NoRec
       THEN /\ pc' = [ pc EXCEPT ![c] = "done" ]
            /\ result' = [ result EXCEPT ![c] = out.thrown ]
            /\ UNCHANGED << requests, inFlight >>
       ELSE /\ pc' = [ pc EXCEPT ![c] = "page" ]
            /\ requests' = [ requests EXCEPT ![c] = << out.get >> ]
            /\ inFlight' = [ inFlight EXCEPT ![c] = { "page" } ]
            /\ UNCHANGED result

\* A caller invokes transcribeVideo(input, {language, format}).
TranscribeCall(c, inputs, languages, formats) ==
    /\ pc[c] = "idle"
    /\ \E input \in inputs, language \in languages, format \in formats :
         /\ args' = [ args EXCEPT ![c] = [ kind |-> "transcribe", input |-> input,
                                           language |-> language, format |-> format ] ]
         /\ Started(c, TranscribeStart(input, language, format))
    /\ UNCHANGED << pageData, params, seen, providers >>

\* A caller invokes listAvailableLanguages(videoId): the page request is issued.
ListCall(c, videoIds) ==
    /\ pc[c] = "idle"
    /\ \E videoId \in videoIds :
         /\ args' = [ args EXCEPT ![c] = [ kind |-> "list", input |-> videoId,
                                           language |-> NoStr, format |-> "absent" ] ]
         /\ frame' = [ frame EXCEPT ![c] = [ NoFrame EXCEPT !.videoId = videoId ] ]
         /\ requests' = [ requests EXCEPT ![c] = << PageRequest(videoId) >> ]
    /\ pc' = [ pc EXCEPT ![c] = "page" ]
    /\ inFlight' = [ inFlight EXCEPT ![c] = { "page" } ]
    /\ trace' = [ trace EXCEPT ![c] = << "pageGet" >> ]
    /\ UNCHANGED << pageData, params, seen, result, providers >>

\* The effect of the last stretch of a call: its steps and what it returned or
\* threw.
CallEnded(c, out) ==
    /\ trace' = [ trace EXCEPT ![c] = @ \o out.steps ]
    /\ result' = [ result EXCEPT ![c] = out.result ]

\* The local pageData after fetchPageData returned or threw.
ValueOr(fetched) == IF fetched.ok THEN fetched.value ELSE NoRec

\* The page request of a transcribeVideo call settles; the call runs to the
\* API request or to its throw.
PageSettled(c, out) ==
    /\ trace' = [ trace EXCEPT ![c] = @ \o out.steps ]
    /\ pageData' = [ pageData EXCEPT ![c] = out.pageData ]
    /\ params' = [ params EXCEPT ![c] = out.params ]
    /\ IF out.thrown # NoRec
       THEN /\ pc' = [ pc EXCEPT ![c] = "done" ]
            /\ result' = [ result EXCEPT ![c] = out.thrown ]
            /\ inFlight' = [ inFlight EXCEPT ![c] = {} ]
            /\ UNCHANGED requests
       ELSE /\ pc' = [ pc EXCEPT ![c] = "api" ]
            /\ requests' = [ requests EXCEPT ![c] = Append(@, out.post) ]
            /\ inFlight' = [ inFlight EXCEPT ![c] = { "api" } ]
            /\ UNCHANGED result

TranscribePage(c, pages) ==
    /\ pc[c] = "page"
    /\ args[c].kind = "transcribe"
    /\ \E resp \in pages :
         /\ seen' = [ seen EXCEPT ![c] = Append(@, resp) ]
         /\ PageSettled(c, TranscribeAfterPage(frame[c].videoId, frame[c].language, resp))
    /\ UNCHANGED << args, frame, providers >>

\* The page request of a listAvailableLanguages call settles; the call ends.
ListPage(c, pages) ==
    /\ pc[c] = "page"
    /\ args[c].kind = "list"
    /\ \E resp \in pages :
         /\ seen' = [ seen EXCEPT ![c] = Append(@, resp) ]
         /\ pageData' = [ pageData EXCEPT ![c] = ValueOr(fetchPageData(frame[c].videoId, resp)) ]
         /\ CallEnded(c, ListAfterPage(frame[c].videoId, resp))
    /\ pc' = [ pc EXCEPT ![c] = "done" ]
    /\ inFlight' = [ inFlight EXCEPT ![c] = {} ]
    /\ UNCHANGED << args, frame, params, requests, providers >>

\* The API request of a transcribeVideo call settles; the call ends.
TranscribeApi(c, apis) ==
    /\ pc[c] = "api"
    /\ \E resp \in apis :
         /\ seen' = [ seen EXCEPT ![c] = Append(@, resp) ]
         /\ CallEnded(c, TranscribeAfterApi(frame[c].videoId, frame[c].language,
                                            frame[c].format, PageDataOf(c), resp))
    /\ pc' = [ pc EXCEPT ![c] = "done" ]
    /\ inFlight' = [ inFlight EXCEPT ![c] = {} ]
    /\ UNCHANGED << args, frame, pageData, params, requests, providers >>

\* The caller has its answer: the call's locals are gone and the slot is free
\* for the next invocation.
Forget(c) ==
    /\ pc[c] = "done"
    /\ pc' = [ pc EXCEPT ![c] = "idle" ]
    /\ args' = [ args EXCEPT ![c] = NoRec ]
    /\ frame' = [ frame EXCEPT ![c] = NoFrame ]
    /\ pageData' = [ pageData EXCEPT ![c] = NoRec ]
    /\ params' = [ params EXCEPT ![c] = NoStr ]
    /\ requests' = [ requests EXCEPT ![c] = << >> ]
    /\ inFlight' = [ inFlight EXCEPT ![c] = {} ]
    /\ seen' = [ seen EXCEPT ![c] = << >> ]
    /\ trace' = [ trace EXCEPT ![c] = << >> ]
    /\ result' = [ result EXCEPT ![c] = NoRec ]
    /\ UNCHANGED providers

\* One invocation at a time, with every input and every answer of the network.
Next ==
    \/ TranscribeCall(1, Inputs, Languages, Formats)
    \/ ListCall(1, { ID_A })
    \/ TranscribePage(1, PageResponses)
    \/ ListPage(1, PageResponses)
    \/ TranscribeApi(1, ApiResponses)
    \/ Forget(1)

Spec == Init /\ [][Next]_vars

\* ------------------------------------------------------------------------
\* Concurrent invocations
\* ------------------------------------------------------------------------

\* Two videos, asked for by identifier and by URL.
ConcInputs ==
    { ID_A, STR_https_slashes \o STR_youtu_be \o << "/" >> \o ID_B }

ConcLanguages == { NoStr, STR_de }

PLAYER_en_de ==
    [ playabilityStatus |-> [ status |-> "OK", reason |-> "absent" ],
      hasTracks |-> TRUE,
      captionTracks |-> << CaptionTrack(STR_en, "absent", STR_English),
                           CaptionTrack(STR_de, "asr", NoStr) >> ]

PLAYER_none ==
    [ playabilityStatus |-> [ status |-> "absent", reason |-> "absent" ],
      hasTracks |-> FALSE, captionTracks |-> << >> ]

PLAYER_error ==
    [ playabilityStatus |-> [ status |-> "ERROR", reason |-> "Video unavailable" ],
      hasTracks |-> FALSE, captionTracks |-> << >> ]

DATA_en ==
    [ hasPanels |-> TRUE,
      engagementPanels |-> << Panel(TRANSCRIPT_PANEL, PARAMS_en) >> ]

\* The ways the page request of a concurrent call settles: throttled, a video
\* with the tracks en and de and a token for en, a video without tracks, an
\* unavailable video.
ConcPages ==
    { PageResponse("response", 429, TRUE, << >>, NoHtml),
      PageResponse("response", 200, TRUE, << Header("set-cookie", "YSC=abc") >>,
                   [ player |-> [ embed |-> "json", doc |-> PLAYER_en_de ],
                     data |-> [ embed |-> "json", doc |-> DATA_en ],
                     visitorData |-> "CgtWaXNpdG9yQQ", clientVersion |-> "2.20250101.00.00" ]),
      PageResponse("response", 200, TRUE, << >>,
                   [ player |-> [ embed |-> "json", doc |-> PLAYER_none ],
                     data |-> [ embed |-> "absent", doc |-> NoRec ],
                     visitorData |-> "absent", clientVersion |-> "absent" ]),
      PageResponse("response", 200, TRUE, << >>,
                   [ player |-> [ embed |-> "json", doc |-> PLAYER_error ],
                     data |-> [ embed |-> "absent", doc |-> NoRec ],
                     visitorData |-> "absent", clientVersion |-> "absent" ]) }

\* The ways its API request settles: the error object of disabled captions,
\* two segments.
ConcApis ==
    { ApiResponse("response", 200, TRUE,
                  Body(120, "object", [ status |-> "FAILED_PRECONDITION",
                                        message |-> "Precondition check failed." ],
                       FALSE, << >>)),
      ApiResponse("response", 200, TRUE,
                  Body(900, "object", NoRec, TRUE,
                       << Action(TRUE, << ITEM_Hello, ITEM_world >>) >>)) }

\* The calls of every slot interleave at their suspension points.
NextConc ==
    \E c \in Calls :
        \/ TranscribeCall(c, ConcInputs, ConcLanguages, { "json" })
        \/ ListCall(c, { ID_A })
        \/ TranscribePage(c, ConcPages)
        \/ ListPage(c, ConcPages)
        \/ TranscribeApi(c, ConcApis)
        \/ Forget(c)

SpecConc == Init /\ [][NextConc]_vars

\* ------------------------------------------------------------------------
\* Identifier resolution on its own
\* ------------------------------------------------------------------------

\* A caller invokes extractVideoId(input): it returns at once.
ExtractCall(c, inputs) ==
    /\ pc[c] = "idle"
    /\ \E input \in inputs :
         /\ args' = [ args EXCEPT ![c] = [ kind |-> "extract", input |-> input,
                                           language |-> NoStr, format |-> "absent" ] ]
         /\ result' = [ result EXCEPT ![c] = Ok([ videoId |-> extractVideoId(input) ]) ]
    /\ pc' = [ pc EXCEPT ![c] = "done" ]
    /\ trace' = [ trace EXCEPT ![c] = << "resolve" >> ]
    /\ UNCHANGED << frame, pageData, params, requests, inFlight, seen, providers >>

\* The longest white space put before and after an input.
MaxPad == 1

PadChars == { " ", "\n" }

\* The white space strings of at most n characters.
RECURSIVE PadStrings(_)
PadStrings(n) ==
    IF n = 0 THEN { << >> }
    ELSE PadStrings(n - 1) \cup { << ch >> \o p : ch \in PadChars, p \in PadStrings(n - 1) }

STR_http_slashes == << "h","t","t","p",":","/","/" >>

STR_watch_v_eq == << "/","w","a","t","c","h","?" >> \o STR_v_eq

\* With or without scheme.
Schemes == { << >>, STR_http_slashes, STR_https_slashes }

\* What comes before the token in the URL shapes on youtube.com, with or
\* without the prefix www. or m.
YoutubeComPrefixes ==
    { scheme \o host \o path :
        scheme \in Schemes,
        host \in { STR_youtube_com, STR_www_dot \o STR_youtube_com, STR_m_youtube_com },
        path \in { STR_watch_v_eq, STR_shorts, STR_embed, STR_v } }

\* What comes before the token in the shape youtu.be/T, with or without www.
YoutuBePrefixes ==
    { scheme \o host \o << "/" >> :
        scheme \in Schemes, host \in { STR_youtu_be, STR_www_dot \o STR_youtu_be } }

\* The shape youtu.be/T with the prefix m.
MobileYoutuBePrefixes ==
    { scheme \o << "m","." >> \o STR_youtu_be \o << "/" >> : scheme \in Schemes }

\* The 11-character tokens tried: the README's example, one that starts with
\* "-" and "_", one that starts with "http", digits only, dashes only,
\* underscores only.
Tokens ==
    { ID_A, ID_B,
      << "h","t","t","p","s","A","b","c","_","1","2" >>,
      << "0","1","2","3","4","5","6","7","8","9","0" >>,
      << "-","-","-","-","-","-","-","-","-","-","-" >>,
      << "_","_","_","_","_","_","_","_","_","_","_" >> }

\* Every input tried: a token, bare or after a prefix, in white space.
ShapedInputs ==
    { left \o prefix \o token \o right :
        left \in PadStrings(MaxPad), right \in PadStrings(MaxPad), token \in Tokens,
        prefix \in { << >> } \cup YoutubeComPrefixes \cup YoutuBePrefixes
                    \cup MobileYoutuBePrefixes }

\* What stands where the token would: ten identifier characters, eleven
\* with one written as a percent escape, eleven broken by a newline, by a tab,
\* by a space or by "+", ten of which one is a percent escape, and nothing.
ShortCandidates ==
    { << "a","b","c","d","e","f","g","h","i","j" >>,
      << "a","b","c","d","e","%","6","6","g","h","i","j","k" >>,
      << "a","b","c","d","e","\n","f","g","h","i","j","k" >>,
      << "a","b","c","d","e","f","g","h","\t","i","j","k" >>,
      << "a","b","c","d","e"," ","f","g","h","i","j","k" >>,
      << "a","b","c","d","e","+","f","g","h","i","j","k" >>,
      << "a","b","c","d","%","2","D","g","h","i","j" >>,
      << >> }

\* Inputs that hold no run of 11 identifier characters.
ShortInputs ==
    { prefix \o cand :
        cand \in ShortCandidates,
        prefix \in { << >> } \cup YoutubeComPrefixes \cup YoutuBePrefixes
                    \cup MobileYoutuBePrefixes }

NextResolve ==
    \/ ExtractCall(1, ShapedInputs \cup ShortInputs)
    \/ Forget(1)

SpecResolve == Init /\ [][NextResolve]_vars

\* ------------------------------------------------------------------------
\* The parser, the formatters and the params codec on their own
\* ------------------------------------------------------------------------

\* What a function that returns at once leaves behind: its arguments and its
\* outcome.
Returned(c, a, r) ==
    /\ args' = [ args EXCEPT ![c] = a ]
    /\ result' = [ result EXCEPT ![c] = r ]
    /\ pc' = [ pc EXCEPT ![c] = "done" ]
    /\ trace' = [ trace EXCEPT ![c] = << a.kind >> ]
    /\ UNCHANGED << frame, pageData, params, requests, inFlight, seen, providers >>

ParseOutcome(parsed) ==
    IF parsed.throws THEN RuntimeTypeError("parseTranscriptSegments")
    ELSE Ok([ segments |-> parsed.segments ])

\* parseTranscriptSegments(apiResponse)
ParseCall(c, bodies) ==
    /\ pc[c] = "idle"
    /\ \E body \in bodies :
           Returned(c, [ kind |-> "parse", input |-> body ],
                    ParseOutcome(parseTranscriptSegments(body)))

\* formatAsText(segments)
TextCall(c, lists) ==
    /\ pc[c] = "idle"
    /\ \E segments \in lists :
           Returned(c, [ kind |-> "text", input |-> segments ],
                    Ok([ string |-> formatAsText(segments) ]))

\* formatAsSrt(segments)
SrtCall(c, lists) ==
    /\ pc[c] = "idle"
    /\ \E segments \in lists :
           Returned(c, [ kind |-> "srt", input |-> segments ],
                    Ok([ string |-> formatAsSrt(segments) ]))

\* msToSrtTimestamp(ms)
TimestampCall(c, times) ==
    /\ pc[c] = "idle"
    /\ \E ms \in times :
           Returned(c, [ kind |-> "timestamp", input |-> ms ],
                    Ok([ string |-> msToSrtTimestamp(ms) ]))

\* extractLangFromParams(buildTranscriptParams(videoId, langCode))
ParamsCall(c, ids, codes) ==
    /\ pc[c] = "idle"
    /\ \E videoId \in ids, langCode \in codes :
           Returned(c, [ kind |-> "params", input |-> videoId, language |-> langCode ],
                    Ok([ params |-> buildTranscriptParams(videoId, langCode),
                         language |-> extractLangFromParams(
                                          buildTranscriptParams(videoId, langCode)) ]))

\* extractLangFromParams(params) for a string that need not be a token
DecodeCall(c, tokens) ==
    /\ pc[c] = "idle"
    /\ \E t \in tokens :
           Returned(c, [ kind |-> "decode", input |-> t.params, failure |-> t.failure ],
                    Ok([ language |-> extractLangFromParams(t.params) ]))

\* The longest initialSegments list of the parser's inputs.
MaxItems == 3

ITEM_Hi == Item(1000, 3000, << "H","i" >>)
ITEM_tabs == Item(3661001, 3662000, << "a","\t","\t","b","\t","c" >>)

NullItem ==
    [ isNull |-> TRUE, hasRenderer |-> FALSE, hasStart |-> FALSE, startMs |-> 0,
      hasEnd |-> FALSE, endMs |-> 0, content |-> NoStr, hasRuns |-> FALSE, runs |-> << >> ]

ItemKinds == { ITEM_Hello, ITEM_world, ITEM_blank, ITEM_runs, ITEM_tabs, ITEM_Hi, OtherItem }

\* The item lists of at most n items.
RECURSIVE ItemLists(_)
ItemLists(n) ==
    IF n = 0 THEN { << >> }
    ELSE ItemLists(n - 1)
         \cup { << item >> \o rest : item \in ItemKinds, rest \in ItemLists(n - 1) }

\* Actions that yield no segment: no initial-segment list, an empty one, one
\* whose items have no text or no renderer.
SKIPPED_ACTIONS ==
    << Action(FALSE, << >>), Action(TRUE, << >>), Action(TRUE, << ITEM_blank, OtherItem >>) >>

\* API responses: one action with every item list, alone or followed by a
\* second action; a response without actions; a list that holds a null;
\* actions that yield nothing, alone or followed by two that do.
ParseBodies ==
    { Body(900, "object", NoRec, TRUE, << Action(TRUE, items) >> \o later) :
        items \in ItemLists(MaxItems),
        later \in { << >>, << Action(TRUE, << ITEM_Hi, ITEM_blank, ITEM_Hello >>) >> } }
    \cup { Body(30, "object", NoRec, FALSE, << >>),
           Body(900, "object", NoRec, TRUE, << Action(TRUE, << ITEM_Hello, NullItem >>) >>),
           Body(900, "object", NoRec, TRUE, SKIPPED_ACTIONS),
           Body(900, "object", NoRec, TRUE,
                SKIPPED_ACTIONS \o << Action(TRUE, << ITEM_world >>),
                                      Action(TRUE, << ITEM_Hello >>) >>) }

Segment(text, startMs, durationMs) ==
    [ text |-> text, startMs |-> startMs, durationMs |-> durationMs ]

\* The segment lists the formatters are given: what the parser returns for the
\* responses above (transcribeVideo formats no empty list), and the lists
\* [Hello, world] and [Hi].
SegmentLists ==
    ({ parseTranscriptSegments(body).segments : body \in ParseBodies } \ { << >> })
    \cup { << Segment(<< "H","e","l","l","o" >>, 0, 1500),
              Segment(<< "w","o","r","l","d" >>, 1500, 1000) >>,
           << Segment(<< "H","i" >>, 1000, 2000) >> }

\* Times in milliseconds: every combination of the hours 0, 1, 99 and 100, the
\* minutes and seconds 0, 1 and 59 and the milliseconds 0, 1 and 999.
Times ==
    { (((h * 60 + m) * 60 + sec) * 1000) + f :
        h \in { 0, 1, 99, 100 }, m \in { 0, 1, 59 }, sec \in { 0, 1, 59 }, f \in { 0, 1, 999 } }

STR_zh_Hans_CN == << "z","h","-","H","a","n","s","-","C","N" >>

\* Language codes: two-letter codes, codes with subtags, the empty string, and
\* codes of 57, 58, 84, 85, 185 and 186 characters.
LangCodes ==
    { << >>, STR_en, STR_EN, STR_de, STR_fr, STR_en_US, STR_zh_Hans_CN }
    \cup { [ i \in 1..n |-> "x" ] : n \in { 57, 58, 84, 85, 185, 186 } }

\* A token whose field 2 is declared len bytes long and holds the text inner,
\* followed by rest.
OuterToken(len, inner, rest) ==
    Base64Encode(<< 10, 11 >> \o Utf8(ID_A) \o << 18, len >> \o Utf8(inner) \o rest)

\* A complete token around the inner message innerBytes.
TokenAround(innerBytes) ==
    OuterToken(Len(encodeURIComponent(Base64Encode(innerBytes))),
               encodeURIComponent(Base64Encode(innerBytes)), << 24, 1 >>)

Candidate(failure, token) == [ failure |-> failure, params |-> token ]

\* Strings handed to extractLangFromParams, with the decode failure each one
\* has ("none": a well-formed token): the empty string, text that is no
\* base64, a token that ends at the outer tag, outer length 0, an escape that
\* is none, an escape cut by the end of the token, an inner message without
\* field 2, with field 2 of length 0, ending at the tag of field 2, an inner
\* field 2 declared 2 bytes long that holds 1, an outer field 2 declared 14
\* bytes long that holds 8, and built tokens.
DecodeInputs ==
    { Candidate("noOuterTag", << >>),
      Candidate("noOuterTag", << "n","o","t"," ","a"," ","t","o","k","e","n","!" >>),
      Candidate("noOuterTag", Base64Encode(<< 10, 11 >> \o Utf8(ID_A))),
      Candidate("missingLength", Base64Encode(<< 10, 11 >> \o Utf8(ID_A) \o << 18 >>)),
      Candidate("zeroLength", OuterToken(0, << >>, << 24, 1 >>)),
      Candidate("unescape", OuterToken(7, << "C","g","A","S","%","z","z" >>, << 24, 1 >>)),
      Candidate("unescape",
                OuterToken(14, << "C","g","A","S","A","m","R","l","G","g","A","%","3" >>, << >>)),
      Candidate("noInnerTag", TokenAround(<< 10, 0, 26, 0 >>)),
      Candidate("zeroLength", TokenAround(<< 10, 0, 18, 0, 26, 0 >>)),
      Candidate("missingLength", TokenAround(<< 10, 0, 18 >>)),
      Candidate("truncated", TokenAround(<< 10, 0, 18, 2, 100 >>)),
      Candidate("truncated", OuterToken(14, << "C","g","A","S","A","m","R","l" >>, << >>)),
      Candidate("none", TokenAround(<< 10, 0, 18, 2, 100, 101, 26, 0 >>)),
      Candidate("none", buildTranscriptParams(ID_B, STR_en_US)),
      Candidate("none", PARAMS_de) }

NextHelpers ==
    \/ DecodeCall(1, DecodeInputs)
    \/ ParseCall(1, ParseBodies)
    \/ TextCall(1, SegmentLists)
    \/ SrtCall(1, SegmentLists)
    \/ TimestampCall(1, Times)
    \/ ParamsCall(1, { ID_A, ID_B }, LangCodes)
    \/ Forget(1)

SpecHelpers == Init /\ [][NextHelpers]_vars

\* ------------------------------------------------------------------------
\* The provider registry
\* ------------------------------------------------------------------------

STR_dot_pdf == << ".","p","d","f" >>

STR_claude_chat == << "c","l","a","u","d","e",".","a","i","/","c","h","a","t","/" >>

STR_claude_project ==
    << "c","l","a","u","d","e",".","a","i","/","p","r","o","j","e","c","t","/" >>

\* String.prototype.endsWith
EndsWith(s, p) == Len(p) <= Len(s) /\ SubSeq(s, Len(s) - Len(p) + 1, Len(s)) = p

\* new URL(input): leading and trailing white space is stripped before the
\* string is parsed.
NewURL(input) == ParseURL(Trim(input))

\* url.protocol of a string new URL() accepts: the scheme in lower case and ":".
ProtocolOf(input) ==
    ToLowerCase(SubSeq(StripTabNewline(Trim(input)), 1,
                       FirstOf(StripTabNewline(Trim(input)), { ":" }, 1)))

\* new URL(input) does not throw and url.protocol is "http:" or "https:".
IsHttpUrl(input) ==
    /\ NewURL(input).ok
    /\ ProtocolOf(input) \in { STR_http \o << ":" >>, STR_http \o << "s", ":" >> }

\* url.pathname.toLowerCase().endsWith(".pdf")
PdfPath(input) == EndsWith(ToLowerCase(NewURL(input).pathname), STR_dot_pdf)

\* PdfProvider.canHandle: a local path, or an http(s) URL, that ends in .pdf.
PdfCanHandle(input) ==
    \/ StartsWith(input, << "/" >>) /\ EndsWith(ToLowerCase(input), STR_dot_pdf)
    \/ IsHttpUrl(input) /\ PdfPath(input)

\* ArticleProvider.canHandle: an http(s) URL that is no YouTube URL and no
\* direct PDF URL.
ArticleCanHandle(input) ==
    /\ IsHttpUrl(input)
    /\ StripWww(NewURL(input).hostname)
          \notin { STR_youtube_com, STR_m_youtube_com, STR_youtu_be }
    /\ ~PdfPath(input)

\* CHAT_RE and PROJECT_RE match at position i: the head in any case, then 36
\* characters that are hexadecimal digits or "-".
LinkAt(s, head, i) ==
    /\ MatchAt(ToLowerCase(s), head, i)
    /\ i + Len(head) + 35 <= Len(s)
    /\ \A k \in 0..35 : s[i + Len(head) + k] \in HexDigits \cup { "-" }

HasLink(s, head) == \E i \in DOMAIN s : LinkAt(s, head, i)

\* What depends on the input, worked out once: the answers of
\* PdfProvider.canHandle and ArticleProvider.canHandle, and whether CHAT_RE
\* or PROJECT_RE matches.
Handled(input) ==
    [ input |-> input,
      pdf |-> PdfCanHandle(input),
      article |-> ArticleCanHandle(input),
      link |-> HasLink(input, STR_claude_chat) \/ HasLink(input, STR_claude_project) ]

\* ClaudeProvider.canHandle: a session key or a cookies file is configured
\* and the input holds a chat or a project link.
ClaudeCanHandle(link, env) == (env.sessionKey \/ env.cookiesFile) /\ link

\* provider.canHandle(input) for an input h = Handled(input). The source of
\* YouTubeProvider is not at hand: what its canHandle answers is given by
\* env.youtube.
canHandle(provider, h, env) ==
    IF provider = "youtube" THEN env.youtube
    ELSE IF provider = "claude" THEN ClaudeCanHandle(h.link, env)
    ELSE IF provider = "pdf" THEN h.pdf
    ELSE h.article

\* A provider of the array: the instance registered as number index.
Provider(list, index) == [ name |-> list[index], index |-> index ]

\* resolve that returns the last provider that can handle the input.
resolveLast(list, input, env) ==
    IF \A i \in DOMAIN list : ~canHandle(list[i], input, env) THEN NoRec
    ELSE Provider(list, MaxOr({ i \in DOMAIN list : canHandle(list[i], input, env) }, 0))

\* The loop of resolve from position i on.
RECURSIVE ResolveFrom(_, _, _, _)
ResolveFrom(list, i, input, env) ==
    IF i > Len(list) THEN NoRec
    ELSE IF canHandle(list[i], input, env) THEN Provider(list, i)
    ELSE ResolveFrom(list, i + 1, input, env)

\* registry.resolve(input): the provider found, NoRec for null.
resolve(list, input, env) == ResolveFrom(list, 1, input, env)

\* The most providers registered.
MaxProviders == 4

\* registry.register(provider)
register(kinds) ==
    /\ Len(providers) < MaxProviders
    /\ \E provider \in kinds : providers' = Append(providers, provider)
    /\ UNCHANGED << pc, args, frame, pageData, params, requests, inFlight, seen, trace, result >>

\* registry.resolve(input) in the environment env
ResolveCall(c, inputs, envs) ==
    /\ pc[c] = "idle"
    /\ \E h \in inputs, env \in envs :
           Returned(c, [ kind |-> "resolve", input |-> h.input, env |-> env ],
                    Ok([ provider |-> resolve(providers, h, env) ]))

ProviderKinds == { "youtube", "claude", "pdf", "article" }

\* The order of the registrations at startup.
STARTUP_ORDER == << "youtube", "claude", "pdf", "article" >>

STR_example_com == << "e","x","a","m","p","l","e",".","c","o","m" >>

UUID == [ i \in 1..36 |-> IF i \in { 9, 14, 19, 24 } THEN "-" ELSE IF i % 2 = 0 THEN "A" ELSE "7" ]

CLAUDE_CHAT_URL == STR_https_slashes \o STR_claude_chat \o UUID

\* What resolve is given: a YouTube URL, an article URL, PDF URLs and paths,
\* Claude links (one too short), a URL that is neither http nor https, and
\* strings that are no URL.
ResolveInputs ==
    { STR_https_slashes \o STR_www_dot \o STR_youtube_com \o STR_watch_v_eq \o ID_A,
      STR_https_slashes \o STR_example_com \o << "/","n","e","w","s" >>,
      STR_https_slashes \o STR_example_com \o << "/","a",".","P","D","F","?","x","=","1" >>,
      << "/","t","m","p","/","a",".","p","d","f" >>,
      CLAUDE_CHAT_URL,
      << " " >> \o STR_http_slashes \o STR_claude_project \o UUID \o << "/","x",".","p","d","f" >>,
      STR_https_slashes \o STR_claude_chat \o SubSeq(UUID, 1, 35),
      << "f","t","p",":","/","/" >> \o STR_example_com \o << "/","a" >>,
      ID_A }

\* The inputs with what depends on them.
HandledInputs == { Handled(input) : input \in ResolveInputs }

\* process.env: CLAUDE_SESSION_KEY and CLAUDE_COOKIES_FILE set or not; and
\* the answer of YouTubeProvider.canHandle.
Envs == [ sessionKey : BOOLEAN, cookiesFile : { FALSE }, youtube : BOOLEAN ]
        \cup [ sessionKey : { FALSE }, cookiesFile : { TRUE }, youtube : { FALSE } ]

NextRegistry ==
    \/ register(ProviderKinds)
    \/ ResolveCall(1, HandledInputs, Envs)
    \/ Forget(1)

SpecRegistry == Init /\ [][NextRegistry]_vars

\* ------------------------------------------------------------------------
\* What a call has seen and how it ended
\* ------------------------------------------------------------------------

Done(c) == pc[c] = "done"

Transcribing(c) == pc[c] # "idle" /\ args[c].kind = "transcribe"

Listing(c) == pc[c] # "idle" /\ args[c].kind = "list"

FailedWith(c, name) == Done(c) /\ ~result[c].ok /\ result[c].error = name

Succeeded(c) == Done(c) /\ result[c].ok

\* The page request of call c was answered with a success status and a
\* readable body.
PageFetched(c) ==
    /\ Len(seen[c]) >= 1
    /\ seen[c][1].net = "response"
    /\ seen[c][1].status \in 200..299
    /\ seen[c][1].bodyOk

\* The API request of call c was answered.
ApiSeen(c) == Transcribing(c) /\ Len(seen[c]) = 2

\* The page holds a player document.
HasPlayer(c) == PageFetched(c) /\ seen[c][1].html.player.embed = "json"

PlayerOf(c) == seen[c][1].html.player.doc

\* The caption tracks the player document of the page lists.
ListedTracks(c) ==
    IF HasPlayer(c) /\ PlayerOf(c).hasTracks THEN PlayerOf(c).captionTracks ELSE << >>

\* The playability status the player document of the page holds.
ListedStatus(c) ==
    IF HasPlayer(c) THEN PlayerOf(c).playabilityStatus.status ELSE "absent"

ZeroTracks(c) == HasPlayer(c) /\ ListedTracks(c) = << >>

\* The status is missing, empty, "OK" or "LIVE_STREAM_OFFLINE".
PlayabilityPassed(c) ==
    PageFetched(c) /\ ListedStatus(c) \in { "absent", "", "OK", "LIVE_STREAM_OFFLINE" }

\* The language the caller asked for.
Requested(c) == IF args[c].language = NoStr THEN STR_en ELSE args[c].language

RaisedDisabled(api) == ~api.ok /\ api.error = "CaptionsDisabledError"

NoSegments(parsed) == ~parsed.throws /\ parsed.segments = << >>

YieldsNoSegments(api) == api.ok /\ NoSegments(parseTranscriptSegments(api.value))

\* Call c lacks captions: the API step raised the captions-disabled condition,
\* or parsing the API response produced no segments.
LackOfCaptions(c) ==
    /\ ApiSeen(c)
    /\ \/ RaisedDisabled(fetchTranscriptViaApi(seen[c][2]))
       \/ YieldsNoSegments(fetchTranscriptViaApi(seen[c][2]))

\* ------------------------------------------------------------------------
\* C1
\* ------------------------------------------------------------------------

\* C1 as stated: with zero caption tracks listed, a call that got past the
\* playability check (and, for transcribeVideo, got its API answer) fails with
\* CaptionsDisabledError.
C1_ZeroTracksAlwaysDisabled ==
    \A c \in Calls :
        (Done(c) /\ ZeroTracks(c) /\ PlayabilityPassed(c) /\ (Listing(c) \/ ApiSeen(c)))
            => FailedWith(c, "CaptionsDisabledError")

\* C1 (amended): with zero caption tracks listed, no call fails with
\* LanguageNotAvailableError; listAvailableLanguages never fails with
\* CaptionsDisabledError and returns the empty list when the playability check
\* passes; transcribeVideo fails with CaptionsDisabledError exactly when the API
\* step raised the captions-disabled condition or yielded no segments.
C1_ZeroTracks ==
    \A c \in Calls :
        (Done(c) /\ ZeroTracks(c)) =>
            /\ ~FailedWith(c, "LanguageNotAvailableError")
            /\ Listing(c) =>
                 /\ ~FailedWith(c, "CaptionsDisabledError")
                 /\ PlayabilityPassed(c) => result[c] = Ok([ languages |-> << >> ])
            /\ Transcribing(c) =>
                 (FailedWith(c, "CaptionsDisabledError") <=> LackOfCaptions(c))

\* A transcribeVideo call whose page lists zero tracks ended with
\* CaptionsDisabledError.
C1_Witness ==
    \E c \in Calls :
        Transcribing(c) /\ ZeroTracks(c) /\ FailedWith(c, "CaptionsDisabledError")

\* ------------------------------------------------------------------------
\* C2
\* ------------------------------------------------------------------------

\* The player document lists the tracks en and de, in that order.
TracksEnDe(c) ==
    /\ Len(ListedTracks(c)) = 2
    /\ ListedTracks(c)[1].languageCode = STR_en
    /\ ListedTracks(c)[2].languageCode = STR_de

RequestsFr(c) == Transcribing(c) /\ args[c].language = STR_fr

AvailableIs(c, codes) ==
    FailedWith(c, "LanguageNotAvailableError") /\ result[c].info.available = codes

\* C2 as stated: with the tracks en, de and the request "fr", whatever the API
\* answered, transcribeVideo fails with LanguageNotAvailableError and the
\* available list ["en","de"].
C2_EveryAnswerUnavailable ==
    \A c \in Calls :
        (Done(c) /\ TracksEnDe(c) /\ RequestsFr(c) /\ ApiSeen(c))
            => AvailableIs(c, << STR_en, STR_de >>)

\* C2 (amended): with the tracks en, de and the request "fr", transcribeVideo
\* never fails with CaptionsDisabledError, and it fails with
\* LanguageNotAvailableError exactly when the API step raised the
\* captions-disabled condition or yielded no segments; the error then names
\* "fr" and carries the available list ["en","de"].
C2_EnDeRequestFr ==
    \A c \in Calls :
        (Done(c) /\ TracksEnDe(c) /\ RequestsFr(c)) =>
            /\ ~FailedWith(c, "CaptionsDisabledError")
            /\ FailedWith(c, "LanguageNotAvailableError") <=> LackOfCaptions(c)
            /\ FailedWith(c, "LanguageNotAvailableError") =>
                 /\ result[c].info.language = STR_fr
                 /\ result[c].info.available = << STR_en, STR_de >>

\* A request for "fr" against the tracks en, de ended with
\* LanguageNotAvailableError.
C2_Witness ==
    \E c \in Calls :
        TracksEnDe(c) /\ RequestsFr(c) /\ FailedWith(c, "LanguageNotAvailableError")

\* ------------------------------------------------------------------------
\* C3
\* ------------------------------------------------------------------------

\* C3: every failure of transcribeVideo is one of the typed errors.
C3_TypedErrorsOnly ==
    \A c \in Calls :
        (Done(c) /\ Transcribing(c) /\ ~result[c].ok) => result[c].error \in TypedErrors

\* ------------------------------------------------------------------------
\* C4
\* ------------------------------------------------------------------------

\* C4: a transcribeVideo call that lacks captions fails with
\* LanguageNotAvailableError carrying the requested language and the track
\* codes in track-list order if the player document lists a track, and with
\* CaptionsDisabledError if it lists none.
C4_Disambiguation ==
    \A c \in Calls :
        (Done(c) /\ LackOfCaptions(c)) =>
            IF ListedTracks(c) # << >>
            THEN /\ AvailableIs(c, [ i \in DOMAIN ListedTracks(c) |->
                                       ListedTracks(c)[i].languageCode ])
                 /\ result[c].info.language = Requested(c)
            ELSE FailedWith(c, "CaptionsDisabledError")

\* The API response yielded no segments, the page lists tracks, and the call
\* ended with LanguageNotAvailableError.
C4_Witness ==
    \E c \in Calls :
        /\ ApiSeen(c)
        /\ YieldsNoSegments(fetchTranscriptViaApi(seen[c][2]))
        /\ Len(ListedTracks(c)) = 2
        /\ FailedWith(c, "LanguageNotAvailableError")

\* ------------------------------------------------------------------------
\* C5
\* ------------------------------------------------------------------------

\* The requests call c issued to the destination to.
RequestsTo(c, to) == { i \in DOMAIN requests[c] : requests[c][i].to = to }

\* C5 as stated: in both flows, any status the player document holds other
\* than "OK" and "LIVE_STREAM_OFFLINE" ends the call with VideoNotFoundError.
C5_AnyOtherStatusFails ==
    \A c \in Calls :
        (HasPlayer(c) /\ ListedStatus(c) \notin { "absent", "OK", "LIVE_STREAM_OFFLINE" })
            => FailedWith(c, "VideoNotFoundError")

\* C5 (amended): in both flows, a status the player document holds that is not
\* empty and is neither "OK" nor "LIVE_STREAM_OFFLINE" ends the call with
\* VideoNotFoundError, in transcribeVideo with no API request issued; with the
\* status "OK", "LIVE_STREAM_OFFLINE", empty or missing, no call fails with
\* VideoNotFoundError.
C5_Playability ==
    \A c \in Calls :
        PageFetched(c) =>
            IF PlayabilityPassed(c)
            THEN ~FailedWith(c, "VideoNotFoundError")
            ELSE FailedWith(c, "VideoNotFoundError") /\ RequestsTo(c, "api") = {}

\* A transcribeVideo call and a listAvailableLanguages call can both end with
\* VideoNotFoundError on a status that is not playable: here the
\* transcribeVideo call on the status "ERROR", after the page request only.
C5_Witness ==
    \E c \in Calls :
        /\ Transcribing(c)
        /\ HasPlayer(c)
        /\ ListedStatus(c) = "ERROR"
        /\ FailedWith(c, "VideoNotFoundError")
        /\ Len(requests[c]) = 1

\* ------------------------------------------------------------------------
\* C6
\* ------------------------------------------------------------------------

\* The order of the steps of one transcribeVideo invocation.
StepOrder ==
    << "resolve", "pageGet", "pageData", "playability", "params",
       "apiPost", "apiData", "parse", "format" >>

IsPrefix(s, t) == Len(s) <= Len(t) /\ SubSeq(t, 1, Len(s)) = s

\* C6: the steps of a transcribeVideo invocation run in the order resolve,
\* page GET, playability check, token choice, API POST, parsing, formatting;
\* the API POST is issued only after the page GET completed successfully and
\* the playability check passed; at most one request is in flight.
C6_StepOrder ==
    \A c \in Calls :
        Transcribing(c) =>
            /\ IsPrefix(trace[c], StepOrder)
            /\ RequestsTo(c, "api") # {} => PlayabilityPassed(c)
            /\ Cardinality(inFlight[c]) <= 1
            /\ "api" \in inFlight[c] => Len(seen[c]) = 1

\* An invocation ran every step, up to formatting.
C6_Witness ==
    \E c \in Calls : Transcribing(c) /\ Succeeded(c) /\ trace[c] = StepOrder

\* ------------------------------------------------------------------------
\* C7
\* ------------------------------------------------------------------------

\* The request failed: the fetch rejected, the status is no success, or
\* reading the body rejected.
RequestFailed(resp) ==
    resp.net = "error" \/ resp.status \notin 200..299 \/ ~resp.bodyOk

\* C7: one transcribeVideo invocation issues at most one page GET and at most
\* one API POST; after a failed request it issues no further request and ends
\* with TranscriptionError.
C7_NoRetry ==
    \A c \in Calls :
        Transcribing(c) =>
            /\ Cardinality(RequestsTo(c, "page")) <= 1
            /\ Cardinality(RequestsTo(c, "api")) <= 1
            /\ \A i \in DOMAIN seen[c] :
                 RequestFailed(seen[c][i]) =>
                     /\ Len(requests[c]) = i
                     /\ inFlight[c] = {}
                     /\ FailedWith(c, "TranscriptionError")

\* The API answered HTTP 429: the invocation ended with TranscriptionError
\* after its two requests.
C7_Witness ==
    \E c \in Calls :
        /\ ApiSeen(c)
        /\ seen[c][2].status = 429
        /\ Len(requests[c]) = 2
        /\ FailedWith(c, "TranscriptionError")

\* ------------------------------------------------------------------------
\* C9
\* ------------------------------------------------------------------------

\* C9: the language of every successful result is the language the caller
\* requested, "en" when omitted.
C9_RequestedLanguage ==
    \A c \in Calls :
        (Transcribing(c) /\ Succeeded(c)) => result[c].value.language = Requested(c)

\* A successful result for the request "EN" that reused the page's token for
\* "en".
C9_Witness ==
    \E c \in Calls :
        /\ Transcribing(c)
        /\ Succeeded(c)
        /\ args[c].language = STR_EN
        /\ params[c] = PARAMS_en
        /\ result[c].value.language = STR_EN

\* ------------------------------------------------------------------------
\* C8
\* ------------------------------------------------------------------------

\* What a call returns or throws when it runs on its own with the arguments a
\* and its requests are answered by responses.
AloneAfterPage(fr, afterPage, responses) ==
    IF afterPage.thrown # NoRec THEN afterPage.thrown
    ELSE TranscribeAfterApi(fr.videoId, fr.language, fr.format,
                            afterPage.pageData, responses[2]).result

AloneAfterStart(start, responses) ==
    IF start.thrown # NoRec THEN start.thrown
    ELSE AloneAfterPage(start.frame,
                        TranscribeAfterPage(start.frame.videoId, start.frame.language,
                                            responses[1]),
                        responses)

Alone(a, responses) ==
    IF a.kind = "list" THEN ListAfterPage(a.input, responses[1]).result
    ELSE AloneAfterStart(TranscribeStart(a.input, a.language, a.format), responses)

\* C8: however the calls interleave, the result or error of each call is that
\* of the call run on its own with its arguments and the responses to its own
\* requests; each call that resolved its identifier issued its own page
\* request, and the page data it holds is the one it fetched.
C8_Independent ==
    \A c \in Calls :
        /\ Done(c) => result[c] = Alone(args[c], seen[c])
        /\ pc[c] \in { "page", "api" } =>
             /\ requests[c][1] = PageRequest(frame[c].videoId)
             /\ Len(requests[c]) = Len(seen[c]) + 1
        /\ pageData[c] # NoRec =>
             pageData[c] = ValueOr(fetchPageData(frame[c].videoId, seen[c][1]))

\* One call returned a transcript while another, which fetched another page,
\* awaits its API answer.
C8_Witness ==
    \E c \in Calls, d \in Calls :
        /\ Transcribing(c)
        /\ Succeeded(c)
        /\ pc[d] = "api"
        /\ pageData[d] # pageData[c]

\* ------------------------------------------------------------------------
\* C10
\* ------------------------------------------------------------------------

\* The input of call c without the white space around it.
Core(c) ==
    SubSeq(args[c].input,
           MinOr({ i \in DOMAIN args[c].input : args[c].input[i] \notin PadChars }, 1),
           MaxOr({ i \in DOMAIN args[c].input : args[c].input[i] \notin PadChars }, 0))

\* The last 11 characters of the input (nothing when it is shorter) and what
\* comes before them.
TokenOf(c) ==
    IF Len(Core(c)) >= 11 THEN SubSeq(Core(c), Len(Core(c)) - 10, Len(Core(c))) ELSE << >>

PrefixOf(c) ==
    IF Len(Core(c)) >= 11 THEN SubSeq(Core(c), 1, Len(Core(c)) - 11) ELSE << >>

Extracted(c) == Done(c) /\ args[c].kind = "extract"

\* C10 as stated: extractVideoId returns T for every shape carrying T, the
\* prefix m. on youtu.be included.
C10_EveryShape ==
    \A c \in Calls :
        (Extracted(c) /\ TokenOf(c) \in Tokens)
            => result[c].value.videoId = TokenOf(c)

\* C10 (amended): extractVideoId returns T for bare T, for youtu.be/T with or
\* without www., and for watch?v=T, shorts/T, embed/T and v/T on youtube.com
\* with or without www. or m.; each with or without scheme and white space.
C10_SupportedShapes ==
    \A c \in Calls :
        ( /\ Extracted(c)
          /\ TokenOf(c) \in Tokens
          /\ PrefixOf(c) \in { << >> } \cup YoutubeComPrefixes \cup YoutuBePrefixes )
            => result[c].value.videoId = TokenOf(c)

\* extractVideoId returned the token of a scheme-less m.youtube.com/shorts/
\* input given in white space.
C10_Witness ==
    \E c \in Calls :
        /\ Extracted(c)
        /\ PrefixOf(c) = STR_m_youtube_com \o STR_shorts
        /\ Len(args[c].input) > Len(Core(c))
        /\ TokenOf(c) = ID_B
        /\ result[c].value.videoId = ID_B

\* ------------------------------------------------------------------------
\* C11
\* ------------------------------------------------------------------------

\* s holds a run of 11 identifier characters.
HasIdRun(s) ==
    \E i \in DOMAIN s :
        i + 10 <= Len(s) /\ \A j \in i..(i + 10) : s[j] \in IdChars

\* s holds a "%", a tab or a newline.
HasEscapeOrBreak(s) == \E i \in DOMAIN s : s[i] \in { "%", "\t", "\n", "\r" }

\* C11 as stated: extractVideoId returns null for every input without a run of
\* 11 identifier characters.
C11_NoRunNull ==
    \A c \in Calls :
        (Extracted(c) /\ ~HasIdRun(args[c].input)) => result[c].value.videoId = NoStr

\* C11 (amended): extractVideoId returns null for every input that holds no
\* run of 11 identifier characters and, between its first and last character
\* that is no white space, no "%", tab or newline; and whatever it returns is
\* null or 11 identifier characters.
C11_NoRunNoEscapeNull ==
    \A c \in Calls :
        Extracted(c) =>
            /\ (~HasIdRun(args[c].input) /\ ~HasEscapeOrBreak(Core(c)))
                   => result[c].value.videoId = NoStr
            /\ result[c].value.videoId # NoStr =>
                   /\ Len(result[c].value.videoId) = 11
                   /\ \A i \in 1..11 : result[c].value.videoId[i] \in IdChars

\* extractVideoId returned null for www.youtube.com/watch?v= followed by ten
\* identifier characters.
C11_Witness ==
    \E c \in Calls :
        /\ Extracted(c)
        /\ args[c].input = STR_www_dot \o STR_youtube_com \o STR_watch_v_eq
                           \o << "a","b","c","d","e","f","g","h","i","j" >>
        /\ result[c].value.videoId = NoStr

\* ------------------------------------------------------------------------
\* C12
\* ------------------------------------------------------------------------

\* C12: when extractVideoId yields null for the input, transcribeVideo has
\* failed with the TranscriptionError that names the input as soon as it was
\* called, and has issued no request.
C12_InvalidIdentifier ==
    \A c \in Calls :
        (Transcribing(c) /\ extractVideoId(args[c].input) = NoStr) =>
            /\ FailedWith(c, "TranscriptionError")
            /\ result[c].info.input = args[c].input
            /\ requests[c] = << >>
            /\ inFlight[c] = {}
            /\ seen[c] = << >>
            /\ trace[c] = << "resolve" >>

\* transcribeVideo("not a video") failed with TranscriptionError and without
\* a request.
C12_Witness ==
    \E c \in Calls :
        /\ Transcribing(c)
        /\ args[c].input = << "n","o","t"," ","a"," ","v","i","d","e","o" >>
        /\ FailedWith(c, "TranscriptionError")
        /\ requests[c] = << >>

\* ------------------------------------------------------------------------
\* C13
\* ------------------------------------------------------------------------

\* The segments parsed from the body of the API response call c received.
ParsedOf(c) == parseTranscriptSegments(seen[c][2].body).segments

STR_Hello == << "H","e","l","l","o" >>
STR_wor_ld == << "w","o","r"," ","l","d" >>

\* The status is "OK", the token for the requested language came from the
\* page, and the API answered with the two items ITEM_Hello and ITEM_world.
TwoSegmentScenario(c) ==
    /\ ListedStatus(c) = "OK"
    /\ params[c] = PARAMS_en
    /\ ToLowerCase(Requested(c)) = STR_en
    /\ seen[c][2].body.parse = "object"
    /\ seen[c][2].body.hasActions
    /\ seen[c][2].body.actions = << Action(TRUE, << ITEM_Hello, ITEM_world >>) >>

\* C13: with format "json" the transcript of a successful result is the parsed
\* segment sequence itself (same length, same order, text, startMs and
\* durationMs of every element unchanged); in the scenario of status "OK", a
\* token reused from the page and an API answer of two segments, it is those
\* two segments.
C13_JsonIsParsed ==
    \A c \in Calls :
        (Transcribing(c) /\ Succeeded(c) /\ args[c].format = "json") =>
            /\ result[c].value.transcript = [ segments |-> ParsedOf(c) ]
            /\ TwoSegmentScenario(c) =>
                   result[c].value.transcript.segments =
                       << [ text |-> STR_Hello, startMs |-> 0, durationMs |-> 1500 ],
                          [ text |-> STR_wor_ld, startMs |-> 1500, durationMs |-> 3659501 ] >>

\* A successful "json" call in the two-segment scenario.
C13_Witness ==
    \E c \in Calls :
        /\ Transcribing(c)
        /\ Succeeded(c)
        /\ args[c].format = "json"
        /\ TwoSegmentScenario(c)
        /\ Len(result[c].value.transcript.segments) = 2

\* ------------------------------------------------------------------------
\* C14
\* ------------------------------------------------------------------------

\* parseTranscriptSegments returned for call c.
Parsed(c) == Done(c) /\ args[c].kind = "parse" /\ result[c].ok

\* The text of a source item after newlines became spaces and it was trimmed.
DerivedText(item) == FlattenText(SnippetText(item))

\* The positions of the items of a list that have a renderer and a text.
KeptIn(items) ==
    { i \in DOMAIN items : items[i].hasRenderer /\ DerivedText(items[i]) # << >> }

\* The k-th smallest element of a set of positions.
Nth(S, k) == CHOOSE i \in S : Cardinality({ j \in S : j < i }) = k - 1

SameAs(seg, item) ==
    /\ seg.text = DerivedText(item)
    /\ seg.startMs = (IF item.hasStart THEN item.startMs ELSE 0)
    /\ seg.durationMs = (IF item.hasEnd THEN item.endMs ELSE 0)
                         - (IF item.hasStart THEN item.startMs ELSE 0)

\* segs are the kept items of the list, one segment each, in the list's order.
SegmentsFrom(segs, items) ==
    /\ Len(segs) = Cardinality(KeptIn(items))
    /\ \A k \in DOMAIN segs : SameAs(segs[k], items[Nth(KeptIn(items), k)])

\* The first action of the response that holds an item with a text (0: none).
SourceAction(actions) ==
    MinOr({ k \in DOMAIN actions : KeptIn(actions[k].initialSegments) # {} }, 0)

SegmentsOfAction(segs, actions, a) ==
    IF a = 0 THEN segs = << >> ELSE SegmentsFrom(segs, actions[a].initialSegments)

\* C14: no segment parseTranscriptSegments returns has an empty text (every
\* item whose text is empty after newlines became spaces and it was trimmed is
\* dropped), and the segments are the remaining items of their action, each
\* once and in the order of the items.
C14_DropsEmptyKeepsOrder ==
    \A c \in Calls :
        Parsed(c) =>
            /\ \A k \in DOMAIN result[c].value.segments :
                   result[c].value.segments[k].text # << >>
            /\ SegmentsOfAction(result[c].value.segments, args[c].input.actions,
                                SourceAction(args[c].input.actions))

\* A response whose items are Hello, a blank one and " wor\nld ": the result
\* is Hello, then "wor ld".
C14_Witness ==
    \E c \in Calls :
        /\ Parsed(c)
        /\ args[c].input.actions = << Action(TRUE, << ITEM_Hello, ITEM_blank, ITEM_world >>) >>
        /\ Len(result[c].value.segments) = 2
        /\ result[c].value.segments[1].text = STR_Hello
        /\ result[c].value.segments[2].text = STR_wor_ld

\* ------------------------------------------------------------------------
\* C15
\* ------------------------------------------------------------------------

\* A token was built for the arguments of call c and its language read back.
RoundTripped(c) == Done(c) /\ args[c].kind = "params"

\* buildTranscriptParams("dQw4w9WgXcQ", "de")
TOKEN_de ==
    << "C","g","t","k","U","X","c","0","d","z","l","X","Z","1","h","j",
       "U","R","I","O","Q","2","d","B","U","0","F","t","U","m","x","H",
       "Z","0","E","l","M","0","Q","Y","A","S","o","z","Z","W","5","n",
       "Y","W","d","l","b","W","V","u","d","C","1","w","Y","W","5","l",
       "b","C","1","z","Z","W","F","y","Y","2","h","h","Y","m","x","l",
       "L","X","R","y","Y","W","5","z","Y","3","J","p","c","H","Q","t",
       "c","2","V","h","c","m","N","o","L","X","B","h","b","m","V","s",
       "M","A","E","4","A","U","A","B" >>

\* C15 as stated: the language read back from a freshly built token is the
\* language code it was built for, whatever the code.
C15_RoundTripAll ==
    \A c \in Calls :
        RoundTripped(c) => result[c].value.language = args[c].language

\* C15 (amended): the language read back from a freshly built token is the
\* language code it was built for when the code is not empty and its escaped
\* inner message fits the one length byte (at most 255 bytes; every code of
\* at most 57 characters does); for the empty code it is "en".
C15_RoundTripShort ==
    \A c \in Calls :
        RoundTripped(c) =>
            /\ (args[c].language # << >> /\ Len(buildLangProto(args[c].language)) <= 255)
                   => result[c].value.language = args[c].language
            /\ Len(args[c].language) \in 1..57
                   => result[c].value.language = args[c].language
            /\ args[c].language = << >> => result[c].value.language = STR_en

\* The token built for "dQw4w9WgXcQ" and "de" reads back as "de".
C15_Witness ==
    \E c \in Calls :
        /\ RoundTripped(c)
        /\ args[c].input = ID_A
        /\ args[c].language = STR_de
        /\ result[c].value.params = TOKEN_de
        /\ result[c].value.language = STR_de

\* ------------------------------------------------------------------------
\* C16
\* ------------------------------------------------------------------------

\* The language code of the track starts with the language, ignoring case.
PrefixMatch(track, language) ==
    /\ Len(language) <= Len(track.languageCode)
    /\ \A i \in DOMAIN language :
           ToLowerChar(track.languageCode[i]) = ToLowerChar(language[i])

\* Track i is the first of the list that matches the language by prefix.
FirstMatch(tracks, language, i) ==
    /\ PrefixMatch(tracks[i], language)
    /\ \A j \in 1..(i - 1) : ~PrefixMatch(tracks[j], language)

\* C16: in a successful result isAutoGenerated is true exactly when the first
\* caption track, in track-list order, whose language code starts with the
\* requested language (ignoring case) is of kind "asr"; it is false when no
\* track matches.
C16_FirstPrefixMatch ==
    \A c \in Calls :
        (Transcribing(c) /\ Succeeded(c)) =>
            (result[c].value.isAutoGenerated
                <=> \E i \in DOMAIN ListedTracks(c) :
                        /\ FirstMatch(ListedTracks(c), Requested(c), i)
                        /\ ListedTracks(c)[i].kind = "asr")

\* The tracks are en-US (auto-generated) and en (manual), the request is for
\* "EN": the result is marked auto-generated.
C16_Witness ==
    \E c \in Calls :
        /\ Transcribing(c)
        /\ Succeeded(c)
        /\ args[c].language = STR_EN
        /\ ListedTracks(c) = << CaptionTrack(STR_en_US, "asr", NoStr),
                                CaptionTrack(STR_en, "absent", STR_English) >>
        /\ result[c].value.isAutoGenerated

\* ------------------------------------------------------------------------
\* C17
\* ------------------------------------------------------------------------

\* The entry listAvailableLanguages returns for a track.
EntryOf(entry, track) ==
    /\ entry.code = track.languageCode
    /\ entry.name = (IF track.name = NoStr THEN track.languageCode ELSE track.name)
    /\ entry.isAutoGenerated = (track.kind = "asr")

\* C17: when the playability check passes, listAvailableLanguages returns one
\* entry per caption track of the player document, in track-list order, with
\* the track's language code, its display name (the code when there is none)
\* and isAutoGenerated true exactly for the kind "asr"; it never issues the
\* transcript-API request.
C17_OneEntryPerTrack ==
    \A c \in Calls :
        Listing(c) =>
            /\ RequestsTo(c, "api") = {}
            /\ Len(requests[c]) = 1
            /\ Len(seen[c]) <= 1
            /\ (Done(c) /\ PlayabilityPassed(c)) =>
                   /\ Succeeded(c)
                   /\ Len(result[c].value.languages) = Len(ListedTracks(c))
                   /\ \A i \in DOMAIN ListedTracks(c) :
                          EntryOf(result[c].value.languages[i], ListedTracks(c)[i])

\* The tracks are en (manual, named English) and de (auto-generated, no
\* name): the entries are {en, English, false} and {de, de, true}.
C17_Witness ==
    \E c \in Calls :
        /\ Listing(c)
        /\ Succeeded(c)
        /\ ListedStatus(c) = "OK"
        /\ ListedTracks(c) = << CaptionTrack(STR_en, "absent", STR_English),
                                CaptionTrack(STR_de, "asr", NoStr) >>
        /\ result[c].value.languages =
               << [ code |-> STR_en, name |-> STR_English, isAutoGenerated |-> FALSE ],
                  [ code |-> STR_de, name |-> STR_de, isAutoGenerated |-> TRUE ] >>

\* ------------------------------------------------------------------------
\* C18
\* ------------------------------------------------------------------------

\* formatAsSrt returned for call c.
SrtFormatted(c) == Done(c) /\ args[c].kind = "srt"

STR_arrow == << " ","-","-",">"," " >>

\* The three lines of cue i start at line 4i - 3 of the output; a blank line
\* follows every cue but the last.
CueAt(lines, i, seg, last) ==
    /\ lines[(4 * i) - 3] = << DigitChars[i + 1] >>
    /\ lines[(4 * i) - 2] = msToSrtTimestamp(seg.startMs) \o STR_arrow
                                \o msToSrtTimestamp(seg.startMs + seg.durationMs)
    /\ lines[(4 * i) - 1] = seg.text
    /\ ~last => lines[4 * i] = << >>

CuesOf(lines, segments) ==
    /\ Len(lines) = (4 * Len(segments)) - 1
    /\ \A i \in DOMAIN segments : CueAt(lines, i, segments[i], i = Len(segments))

STR_cue_Hi ==
    << "1","\n","0","0",":","0","0",":","0","1",",","0","0","0"," ","-","-",">"," ",
       "0","0",":","0","0",":","0","3",",","0","0","0","\n","H","i" >>

\* C18: the output of formatAsSrt is, for segment number i from 1 in segment
\* order, the line i, the line "start --> end" with the timestamps of startMs
\* and of startMs + durationMs, and the text; one blank line stands between
\* two cues and nothing follows the last; the segment {Hi, 1000, 2000} gives
\* "1\n00:00:01,000 --> 00:00:03,000\nHi".
C18_SrtCues ==
    \A c \in Calls :
        SrtFormatted(c) =>
            /\ CuesOf(Split(result[c].value.string, "\n"), args[c].input)
            /\ args[c].input = << Segment(<< "H","i" >>, 1000, 2000) >>
                   => result[c].value.string = STR_cue_Hi

\* Three segments were formatted: the output has three cues and two blank
\* lines, and ends with the text of the third.
C18_Witness ==
    \E c \in Calls :
        /\ SrtFormatted(c)
        /\ Len(args[c].input) = 3
        /\ Len(Split(result[c].value.string, "\n")) = 11
        /\ Split(result[c].value.string, "\n")[4] = << >>
        /\ Split(result[c].value.string, "\n")[9] = << "3" >>
        /\ Split(result[c].value.string, "\n")[11] = args[c].input[3].text

\* ------------------------------------------------------------------------
\* C19
\* ------------------------------------------------------------------------

\* msToSrtTimestamp returned for call c.
Timestamped(c) == Done(c) /\ args[c].kind = "timestamp"

\* The number a string of decimal digits writes.
RECURSIVE Number(_)
Number(str) ==
    IF str = << >> THEN 0
    ELSE (10 * Number(SubSeq(str, 1, Len(str) - 1)))
         + ((CHOOSE i \in 1..10 : DigitChars[i] = str[Len(str)]) - 1)

AllDigits(str) == \A i \in DOMAIN str : str[i] \in Digits

\* r is hours ":" MM ":" SS "," mmm for the four numbers: two digits each for
\* minutes and seconds, three for the milliseconds, two or more for the hours.
IsTimestamp(r, hours, minutes, seconds, milliseconds) ==
    /\ Len(r) >= 12
    /\ r[Len(r) - 9] = ":"
    /\ r[Len(r) - 6] = ":"
    /\ r[Len(r) - 3] = ","
    /\ AllDigits(SubSeq(r, 1, Len(r) - 10))
    /\ AllDigits(SubSeq(r, Len(r) - 8, Len(r) - 7))
    /\ AllDigits(SubSeq(r, Len(r) - 5, Len(r) - 4))
    /\ AllDigits(SubSeq(r, Len(r) - 2, Len(r)))
    /\ Number(SubSeq(r, 1, Len(r) - 10)) = hours
    /\ Number(SubSeq(r, Len(r) - 8, Len(r) - 7)) = minutes
    /\ Number(SubSeq(r, Len(r) - 5, Len(r) - 4)) = seconds
    /\ Number(SubSeq(r, Len(r) - 2, Len(r))) = milliseconds
    /\ hours < 100 => Len(r) = 12
    /\ minutes < 60
    /\ seconds < 60
    /\ milliseconds < 1000

STR_01_01_01_001 == << "0","1",":","0","1",":","0","1",",","0","0","1" >>

STR_00_00_00_999 == << "0","0",":","0","0",":","0","0",",","9","9","9" >>

\* C19: for ms >= 0, msToSrtTimestamp(ms) is HH:MM:SS,mmm with
\* totalSeconds = floor(ms / 1000), HH = floor(totalSeconds / 3600),
\* MM = floor((totalSeconds mod 3600) / 60), SS = totalSeconds mod 60 and
\* mmm = ms mod 1000, HH, MM and SS padded with zeros to two digits and mmm to
\* three; MM and SS are below 60 and mmm below 1000; 3661001 gives
\* 01:01:01,001 and 999 gives 00:00:00,999.
C19_TimestampFields ==
    \A c \in Calls :
        (Timestamped(c) /\ args[c].input >= 0) =>
            /\ IsTimestamp(result[c].value.string,
                           (args[c].input \div 1000) \div 3600,
                           ((args[c].input \div 1000) % 3600) \div 60,
                           (args[c].input \div 1000) % 60,
                           args[c].input % 1000)
            /\ args[c].input = 3661001 => result[c].value.string = STR_01_01_01_001
            /\ args[c].input = 999 => result[c].value.string = STR_00_00_00_999

\* The timestamp of 3661001 ms.
C19_Witness ==
    \E c \in Calls :
        /\ Timestamped(c)
        /\ args[c].input = 3661001
        /\ result[c].value.string = STR_01_01_01_001

\* ------------------------------------------------------------------------
\* C20
\* ------------------------------------------------------------------------

\* formatAsText returned for call c.
TextFormatted(c) == Done(c) /\ args[c].kind = "text"

\* The texts of the segments with one space between two of them.
RECURSIVE SpacedTexts(_)
SpacedTexts(segments) ==
    IF segments = << >> THEN << >>
    ELSE IF Len(segments) = 1 THEN segments[1].text
    ELSE SpacedTexts(SubSeq(segments, 1, Len(segments) - 1))
         \o << " " >> \o segments[Len(segments)].text

IsSpace(s, i) == s[i] \in WhiteSpace

\* Position i of s survives: it holds no white space, or it is the first
\* position of a run of white space that has text before and after it.
Survives(s, i) ==
    \/ ~IsSpace(s, i)
    \/ /\ i > 1
       /\ ~IsSpace(s, i - 1)
       /\ \E b \in (i + 1)..Len(s) : ~IsSpace(s, b)

\* What stands for position i: the character itself, a space for a run of two
\* or more white-space characters.
Collapsed(s, i) ==
    IF IsSpace(s, i) /\ i < Len(s) /\ IsSpace(s, i + 1) THEN " " ELSE s[i]

\* out is s with every run of white space of length two or more replaced by
\* one space, without the white space at its ends.
IsCollapsedTrimmed(out, s, kept) ==
    /\ Len(out) = Cardinality(kept)
    /\ \A k \in DOMAIN out : out[k] = Collapsed(s, Nth(kept, k))

NoDoubleSpace(out) ==
    /\ \A i \in 1..(Len(out) - 1) : ~(IsSpace(out, i) /\ IsSpace(out, i + 1))
    /\ out # << >> => (~IsSpace(out, 1) /\ ~IsSpace(out, Len(out)))

STR_Hello_world == << "H","e","l","l","o"," ","w","o","r","l","d" >>

\* C20: the output of formatAsText is the texts of the segments in segment
\* order joined by single spaces, every run of two or more white-space
\* characters replaced by one space, trimmed; it holds no two consecutive
\* white-space characters and none at its ends; [Hello, world] gives
\* "Hello world".
C20_TextJoined ==
    \A c \in Calls :
        TextFormatted(c) =>
            /\ IsCollapsedTrimmed(result[c].value.string, SpacedTexts(args[c].input),
                                  { i \in DOMAIN SpacedTexts(args[c].input) :
                                      Survives(SpacedTexts(args[c].input), i) })
            /\ NoDoubleSpace(result[c].value.string)
            /\ args[c].input = << Segment(<< "H","e","l","l","o" >>, 0, 1500),
                                  Segment(<< "w","o","r","l","d" >>, 1500, 1000) >>
                   => result[c].value.string = STR_Hello_world

\* The texts "Hi  you" and "a", two tabs, "b", a tab, "c" give "Hi you a b",
\* a tab, "c".
C20_Witness ==
    \E c \in Calls :
        /\ TextFormatted(c)
        /\ Len(args[c].input) = 2
        /\ args[c].input[1].text = << "H","i"," "," ","y","o","u" >>
        /\ args[c].input[2].text = << "a","\t","\t","b","\t","c" >>
        /\ result[c].value.string =
               << "H","i"," ","y","o","u"," ","a"," ","b","\t","c" >>

\* ------------------------------------------------------------------------
\* C21
\* ------------------------------------------------------------------------

\* Call c issued its API request.
ApiRequested(c) == Transcribing(c) /\ Len(requests[c]) = 2

\* The UI document of the page call c fetched (NoRec: none).
UiDocOf(c) ==
    IF PageFetched(c) /\ seen[c][1].html.data.embed = "json"
    THEN seen[c][1].html.data.doc ELSE NoRec

\* The positions of the transcript panels in a panel list.
TranscriptPanels(panels) ==
    { i \in DOMAIN panels :
        ~panels[i].isNull /\ panels[i].panelIdentifier = TRANSCRIPT_PANEL }

\* The token the first transcript panel of a UI document holds (NoStr: no
\* document, no panel list, no transcript panel, or no token in it).
RecoveredFrom(doc) ==
    IF doc = NoRec THEN NoStr
    ELSE IF ~doc.hasPanels THEN NoStr
    ELSE IF TranscriptPanels(doc.engagementPanels) = {} THEN NoStr
    ELSE doc.engagementPanels[MinOr(TranscriptPanels(doc.engagementPanels), 1)].params

\* The language the tokens of the pages carry: "de" in PARAMS_de, "en" in
\* PARAMS_en, none in PARAMS_other (which reads as the default "en").
DecodedLanguage(token) == IF token = PARAMS_de THEN STR_de ELSE STR_en

\* The recovered token is there and its language is the requested one, ignoring case.
Reusable(token, language) ==
    /\ token # NoStr
    /\ ToLowerCase(DecodedLanguage(token)) = ToLowerCase(language)

\* The tokens buildTranscriptParams builds for the identifiers and the
\* languages of the calls.
FreshTokens ==
    { [ videoId |-> v, language |-> l, token |-> buildTranscriptParams(v, l) ] :
        v \in { ID_A, ID_B }, l \in Languages \ { NoStr } }

FreshToken(videoId, language) ==
    (CHOOSE t \in FreshTokens : t.videoId = videoId /\ t.language = language).token

\* C21: the token transcribeVideo sends to the API is the one recovered from
\* the UI document if and only if one was recovered and the language decoded
\* from it is the requested language ignoring case; otherwise it is the token
\* built from the resolved identifier and the requested language.
C21_TokenChoice ==
    \A c \in Calls :
        ApiRequested(c) =>
            /\ requests[c][2].params = params[c]
            /\ Reusable(RecoveredFrom(UiDocOf(c)), Requested(c))
                   => requests[c][2].params = RecoveredFrom(UiDocOf(c))
            /\ ~Reusable(RecoveredFrom(UiDocOf(c)), Requested(c))
                   => /\ requests[c][2].params
                          = FreshToken(frame[c].videoId, Requested(c))
                      /\ requests[c][2].params # RecoveredFrom(UiDocOf(c))

\* The page holds a token for "en", the request is for "de" and the video
\* dQw4w9WgXcQ: the token sent is the one built for them.
C21_Witness ==
    \E c \in Calls :
        /\ ApiRequested(c)
        /\ RecoveredFrom(UiDocOf(c)) = PARAMS_en
        /\ args[c].language = STR_de
        /\ frame[c].videoId = ID_A
        /\ requests[c][2].params = TOKEN_de

\* ------------------------------------------------------------------------
\* C22
\* ------------------------------------------------------------------------

\* The API request of call c was answered by a response res.
ApiAnswered(c) == ApiSeen(c) /\ seen[c][2].net = "response"

\* A readable body that parses as JSON.
ParsedBody(resp) == resp.bodyOk /\ resp.body.parse # "fail"

\* A parsed body that carries an error object.
HasErrorObject(resp) == resp.body.parse = "object" /\ resp.body.error # NoRec

\* out is a TranscriptionError that carries the status of resp and at most
\* the first 200 characters of its body.
StatusFailure(resp, out) ==
    /\ ~out.ok /\ out.error = "TranscriptionError"
    /\ out.info.status = resp.status
    /\ out.info.bodyChars <= 200
    /\ resp.bodyOk => out.info.bodyChars <= resp.body.len

\* out is the error an error object is interpreted as.
ErrorObjectFailure(err, out) ==
    IF err.status = "FAILED_PRECONDITION"
    THEN ~out.ok /\ out.error = "CaptionsDisabledError"
    ELSE /\ ~out.ok /\ out.error = "TranscriptionError"
         /\ out.info.message
                = (IF err.message = "absent" THEN "Unknown API error" ELSE err.message)

\* out is the class of the response resp.
Classified(resp, out) ==
    IF ~HttpOk(resp.status) THEN StatusFailure(resp, out)
    ELSE IF ~ParsedBody(resp) THEN ~out.ok /\ out.error = "TranscriptionError"
    ELSE IF HasErrorObject(resp) THEN ErrorObjectFailure(resp.body.error, out)
    ELSE out = Ok(resp.body)

\* C22: fetchTranscriptViaApi classifies every response: a non-success status
\* yields TranscriptionError with the status and at most 200 characters of the
\* body, an unparseable body yields TranscriptionError, an error object of
\* status FAILED_PRECONDITION yields CaptionsDisabledError, any other error
\* object yields TranscriptionError with its message, and a parsed body
\* without an error object, and only that, is returned.
C22_EveryResponseClassified ==
    \A c \in Calls :
        ApiAnswered(c) => Classified(seen[c][2], fetchTranscriptViaApi(seen[c][2]))

\* The same for every response but the success-status body that is the JSON
\* literal null.
C22_ClassifiedUnlessNull ==
    \A c \in Calls :
        (ApiAnswered(c) /\ ~(HttpOk(seen[c][2].status) /\ ParsedBody(seen[c][2])
                                /\ seen[c][2].body.parse = "null"))
            => Classified(seen[c][2], fetchTranscriptViaApi(seen[c][2]))

\* ------------------------------------------------------------------------
\* C23
\* ------------------------------------------------------------------------

\* The page request of call c settled.
PageSeen(c) == Transcribing(c) /\ Len(seen[c]) >= 1

\* The page was answered with a status that is no success.
PageStatusFailed(resp) == resp.net = "response" /\ resp.status \notin 200..299

\* The page request rejected, or the read of the body of a success did.
PageNetworkFailed(resp) ==
    \/ resp.net = "error"
    \/ resp.net = "response" /\ resp.status \in 200..299 /\ ~resp.bodyOk

\* Call c ended right after the page request: one request, one answer, no
\* playability check, no token, no API request.
StoppedAtPage(c) ==
    /\ Done(c)
    /\ trace[c] = << "resolve", "pageGet" >>
    /\ Len(requests[c]) = 1 /\ requests[c][1].to = "page"
    /\ Len(seen[c]) = 1
    /\ params[c] = NoStr
    /\ inFlight[c] = {}

\* C23: a page answered with a non-success status yields a TranscriptionError
\* whose message carries the status code, a network failure of the request or
\* of the body read yields a TranscriptionError wrapping the cause, and in both
\* cases transcribeVideo stops there: no playability check, no token, no API
\* request.
C23_PageFailureStops ==
    \A c \in Calls :
        /\ (PageSeen(c) /\ PageStatusFailed(seen[c][1]))
              => /\ FailedWith(c, "TranscriptionError")
                 /\ result[c].info.tmpl = "HTTP %d fetching YouTube page for video %s"
                 /\ result[c].info.status = seen[c][1].status
                 /\ StoppedAtPage(c)
        /\ (PageSeen(c) /\ PageNetworkFailed(seen[c][1]))
              => /\ FailedWith(c, "TranscriptionError")
                 /\ result[c].info.cause
                 /\ StoppedAtPage(c)

\* A call whose page request was answered 429 ended with the error that
\* carries 429.
C23_Witness ==
    \E c \in Calls :
        /\ PageSeen(c) /\ seen[c][1].status = 429
        /\ FailedWith(c, "TranscriptionError")
        /\ result[c].info.status = 429
        /\ StoppedAtPage(c)

\* ------------------------------------------------------------------------
\* C24
\* ------------------------------------------------------------------------

\* The page of call c was fetched and holds no (well-formed) player document,
\* no (well-formed) UI-data document.
PlayerMissing(c) == PageFetched(c) /\ seen[c][1].html.player.embed \in { "absent", "malformed" }

UiDocMissing(c) == PageFetched(c) /\ seen[c][1].html.data.embed \in { "absent", "malformed" }

\* The first segments of the set-cookie headers that are not empty, in header order.
CookieHeaders(headers) ==
    SelectSeq(headers, LAMBDA h : h.name = "set-cookie" /\ h.first # "")

SetCookies(headers) ==
    [ i \in 1..Len(CookieHeaders(headers)) |-> CookieHeaders(headers)[i].first ]

\* The page data of a fetched page resp: every document that is there, null
\* for the others, the visitor token or null, the client version or the
\* fallback, the consent cookie followed by the cookies of the response.
DegradedPageData(resp) ==
    [ playerResponse |-> IF resp.html.player.embed = "json" THEN resp.html.player.doc ELSE NoRec,
      initialData |-> IF resp.html.data.embed = "json" THEN resp.html.data.doc ELSE NoRec,
      visitorData |-> resp.html.visitorData,
      clientVersion |-> IF resp.html.clientVersion = "absent"
                        THEN "2.20241121.01.00" ELSE resp.html.clientVersion,
      cookies |-> << "CONSENT=YES+cb.20210328-17-p0.en+FX+000" >> \o SetCookies(resp.headers) ]

\* Call c sent the API request with the token built for its identifier and language.
CalledApiWithFreshToken(c) ==
    /\ Len(requests[c]) >= 2
    /\ requests[c][2].to = "api"
    /\ requests[c][2].params = FreshToken(frame[c].videoId, Requested(c))

\* C24 as stated: whenever the fetched page lacks the player document or the
\* UI-data document, the fetch succeeds with null for that document only and
\* transcribeVideo builds a fresh token and calls the API.
C24_AlwaysFreshToken ==
    \A c \in Calls :
        (Transcribing(c) /\ (PlayerMissing(c) \/ UiDocMissing(c)))
            => /\ pageData[c] = DegradedPageData(seen[c][1])
               /\ CalledApiWithFreshToken(c)

\* C24, amended: when the page GET succeeds, the fetch succeeds with null for
\* every document that is absent or malformed and with the other document, the
\* visitor token, the client version (or the fallback) and the cookies; a null
\* player document passes the playability check, and with a null UI-data
\* document a fresh token is built and the API called whenever the
\* playability check passes, as it does when both documents are null.
C24_DegradesGracefully ==
    \A c \in Calls :
        /\ (pc[c] # "idle" /\ PageFetched(c)) => pageData[c] = DegradedPageData(seen[c][1])
        /\ (Transcribing(c) /\ PlayerMissing(c))
              => /\ PlayabilityPassed(c)
                 /\ "playability" \in Range(trace[c])
                 /\ "params" \in Range(trace[c])
                 /\ ~FailedWith(c, "VideoNotFoundError")
        /\ (Transcribing(c) /\ UiDocMissing(c) /\ PlayabilityPassed(c))
              => CalledApiWithFreshToken(c)
        /\ (Transcribing(c) /\ UiDocMissing(c) /\ PlayerMissing(c))
              => CalledApiWithFreshToken(c)

\* Both documents are malformed on a page without visitor token and client
\* version: the page data holds two nulls and the fallback, and the API was
\* called with the token built for dQw4w9WgXcQ and "de".
C24_Witness ==
    \E c \in Calls :
        /\ Transcribing(c) /\ PageFetched(c)
        /\ seen[c][1].html.player.embed = "malformed"
        /\ seen[c][1].html.data.embed = "malformed"
        /\ pageData[c].playerResponse = NoRec /\ pageData[c].initialData = NoRec
        /\ pageData[c].clientVersion = "2.20241121.01.00"
        /\ frame[c].videoId = ID_A /\ args[c].language = STR_de
        /\ Len(requests[c]) = 2 /\ requests[c][2].params = TOKEN_de

\* ------------------------------------------------------------------------
\* C25
\* ------------------------------------------------------------------------

\* The actions of a response that yield a segment: their initial-segment list
\* is there and holds an item with a renderer and a text.
Yielding(actions) ==
    { k \in DOMAIN actions :
        /\ ~actions[k].isNull /\ actions[k].hasSegments
        /\ KeptIn(actions[k].initialSegments) # {} }

\* segs are the segments of the action a alone, all of them.
OnlyFrom(segs, actions, a) ==
    /\ SegmentsFrom(segs, actions[a].initialSegments)
    /\ \A k \in DOMAIN actions :
           k < a => ~actions[k].hasSegments \/ KeptIn(actions[k].initialSegments) = {}

\* C25: parseTranscriptSegments returns the segments of the first action, in
\* the order of the actions, whose list is not empty once the entries without
\* text are dropped, and of that action alone; the actions before it (no
\* list, an empty list, only entries without text) are skipped; the result is
\* the empty sequence when no action yields a segment.
C25_FirstYieldingAction ==
    \A c \in Calls :
        Parsed(c) =>
            IF Yielding(args[c].input.actions) = {}
            THEN result[c].value.segments = << >>
            ELSE OnlyFrom(result[c].value.segments, args[c].input.actions,
                          MinOr(Yielding(args[c].input.actions), 1))

\* Three actions without a segment, then one with " wor\nld ", then one with
\* Hello: the result is the single segment "wor ld".
C25_Witness ==
    \E c \in Calls :
        /\ Parsed(c)
        /\ Len(args[c].input.actions) = 5
        /\ Yielding(args[c].input.actions) = { 4, 5 }
        /\ result[c].value.segments = << Segment(STR_wor_ld, 1500, 3659501) >>

\* No action of the response yields a segment: the result is empty.
C25_WitnessEmpty ==
    \E c \in Calls :
        /\ Parsed(c)
        /\ Len(args[c].input.actions) = 3
        /\ Yielding(args[c].input.actions) = {}
        /\ result[c].value.segments = << >>

\* ------------------------------------------------------------------------
\* C26
\* ------------------------------------------------------------------------

\* A length-delimited field as a protobuf encoder writes it when its length
\* fits one varint byte: the tag, the true length, the bytes.
Field(tag, bytes) == << tag, Len(bytes) >> \o bytes

\* The length of a field fits the single length byte without continuation bit.
FitsOneByte(bytes) == Len(bytes) <= 127

\* The inner message for a language code and its URL-escaped base64 text.
InnerMessage(langBytes) == << 10, 0 >> \o Field(18, langBytes) \o << 26, 0 >>

EscapedInner(langBytes) == Utf8(encodeURIComponent(Base64Encode(InnerMessage(langBytes))))

\* bytes are the token for idBytes and langBytes with every length byte equal
\* to the true length of its field, and every length fits one byte.
WellFramed(bytes, idBytes, langBytes) ==
    /\ FitsOneByte(idBytes)
    /\ FitsOneByte(langBytes)
    /\ FitsOneByte(EscapedInner(langBytes))
    /\ FitsOneByte(Utf8(PANEL_ID))
    /\ bytes = Field(10, idBytes) \o Field(18, EscapedInner(langBytes)) \o << 24, 1 >>
                \o Field(42, Utf8(PANEL_ID)) \o << 48, 1, 56, 1, 64, 1 >>

\* buildTranscriptParams returned for call c, for an identifier of 11 characters.
Built(c) == Done(c) /\ args[c].kind = "params" /\ Len(args[c].input) = 11

\* C26 as stated: in every token buildTranscriptParams builds for an
\* 11-character identifier and the language code the caller passed, the length
\* of every length-delimited field is at most 127 and the length byte written
\* is the true length of the field.
C26_EveryLengthFits ==
    \A c \in Calls :
        Built(c) => WellFramed(Base64Decode(result[c].value.params),
                               Utf8(args[c].input), Utf8(args[c].language))

\* C26, amended: the same for the language codes of at most 84 ASCII
\* characters.
C26_ShortCodesFit ==
    \A c \in Calls :
        (Built(c) /\ Len(args[c].language) <= 84)
            => WellFramed(Base64Decode(result[c].value.params),
                          Utf8(args[c].input), Utf8(args[c].language))

\* The token for a code of 84 characters: its escaped inner message is 120
\* bytes long, and 120 is the length byte written.
C26_Witness ==
    \E c \in Calls :
        /\ Built(c)
        /\ Len(args[c].language) = 84
        /\ Len(EscapedInner(Utf8(args[c].language))) = 120
        /\ Base64Decode(result[c].value.params)[14] = 18
        /\ Base64Decode(result[c].value.params)[15] = 120

\* The token for a code of 85 characters: the escaped inner message is 128
\* bytes long.
C26_WitnessLong ==
    \E c \in Calls :
        /\ Built(c)
        /\ Len(args[c].language) = 85
        /\ Len(EscapedInner(Utf8(args[c].language))) = 128
        /\ Base64Decode(result[c].value.params)[15] = 128

\* ------------------------------------------------------------------------
\* C27
\* ------------------------------------------------------------------------

\* extractLangFromParams was applied for call c.
Decoded(c) == Done(c) /\ args[c].kind = "decode"

\* C27: extractLangFromParams never throws, and it returns "en" on every
\* decode failure: outer or inner tag not found, zero or missing length byte,
\* URL-unescape error, truncated field.
C27_DefaultsOnEveryFailure ==
    \A c \in Calls :
        Decoded(c) =>
            /\ result[c].ok
            /\ args[c].failure # "none" => result[c].value.language = STR_en

\* The same for every failure but the truncated field.
C27_DefaultsUnlessTruncated ==
    \A c \in Calls :
        Decoded(c) =>
            /\ result[c].ok
            /\ args[c].failure \notin { "none", "truncated" }
                   => result[c].value.language = STR_en

\* An inner field 2 that is declared 2 bytes long and holds the one byte "d"
\* is read as the language "d".
C27_TruncatedIsCut ==
    \E c \in Calls :
        /\ Decoded(c)
        /\ args[c].input = TokenAround(<< 10, 0, 18, 2, 100 >>)
        /\ result[c].value.language = << "d" >>

\* ------------------------------------------------------------------------
\* C28
\* ------------------------------------------------------------------------

\* The API answered call c with a status that is no success.
ApiStatusFailed(c) == ApiAnswered(c) /\ seen[c][2].status \notin 200..299

\* The body of the API answer carries the error object of disabled captions.
SaysPrecondition(resp) ==
    /\ resp.bodyOk /\ resp.body.parse = "object" /\ resp.body.error # NoRec
    /\ resp.body.error.status = "FAILED_PRECONDITION"

\* C28: when the transcript API answers with a non-success status,
\* transcribeVideo ends with the TranscriptionError of that status, whatever
\* the body holds (an error object of status FAILED_PRECONDITION included);
\* CaptionsDisabledError and LanguageNotAvailableError end a call only after
\* an API answer of success status.
C28_StatusBeforeBody ==
    \A c \in Calls :
        /\ ApiStatusFailed(c)
              => /\ FailedWith(c, "TranscriptionError")
                 /\ result[c].info.tmpl = "YouTube transcript API returned HTTP %d: %s"
                 /\ result[c].info.status = seen[c][2].status
        /\ (Transcribing(c) /\ (\/ FailedWith(c, "CaptionsDisabledError")
                                 \/ FailedWith(c, "LanguageNotAvailableError")))
              => /\ Len(seen[c]) = 2
                 /\ seen[c][2].net = "response"
                 /\ seen[c][2].status \in 200..299

\* The API answered 429 with the error object of disabled captions in the
\* body, for a video that lists caption tracks: the call ended with the
\* TranscriptionError of status 429.
C28_Witness ==
    \E c \in Calls :
        /\ ApiStatusFailed(c)
        /\ seen[c][2].status = 429
        /\ SaysPrecondition(seen[c][2])
        /\ Len(ListedTracks(c)) > 0
        /\ FailedWith(c, "TranscriptionError")
        /\ result[c].info.status = 429

\* ------------------------------------------------------------------------
\* C29
\* ------------------------------------------------------------------------

\* The API answered call c with a body that holds an item with a renderer
\* and a text that is not empty once trimmed.
SegmentParsed(c) ==
    /\ ApiAnswered(c)
    /\ seen[c][2].status \in 200..299
    /\ ParsedBody(seen[c][2])
    /\ seen[c][2].body.parse = "object"
    /\ Yielding(seen[c][2].body.actions) # {}

\* The transcript of a result is not empty: the string, or the segment list
\* of the "json" format.
NonEmptyTranscript(format, transcript) ==
    IF format = "json" THEN transcript.segments # << >> ELSE transcript.string # << >>

\* transcribeVideo returns only with a segment parsed, and a formatter runs
\* only then.
SuccessHasSegment(c) ==
    /\ Succeeded(c)
          => /\ SegmentParsed(c)
             /\ NonEmptyTranscript(frame[c].format, result[c].value.transcript)
    /\ "format" \in Range(trace[c]) => SegmentParsed(c)

\* C29: transcribeVideo returns normally only if at least one segment with a
\* non-empty trimmed text was parsed from the API response (the transcript of
\* every result is non-empty and no formatter is applied to an empty list),
\* and every other run ends in a typed error.
C29_SegmentOrTypedError ==
    \A c \in Calls :
        Transcribing(c) =>
            /\ SuccessHasSegment(c)
            /\ (Done(c) /\ ~result[c].ok) => result[c].error \in TypedErrors

\* The part about the successful runs alone.
C29_SuccessHasSegment ==
    \A c \in Calls : Transcribing(c) => SuccessHasSegment(c)

\* A call returned a transcript in the "srt" format.
C29_Returned ==
    \E c \in Calls :
        /\ Transcribing(c) /\ Succeeded(c)
        /\ frame[c].format = "srt"
        /\ SegmentParsed(c)
        /\ result[c].value.transcript.string # << >>

\* ------------------------------------------------------------------------
\* C30
\* ------------------------------------------------------------------------

\* What the providers answer for an input: PdfProvider for a path or an
\* http(s) URL that ends in .pdf, ArticleProvider for another http(s) URL
\* that is not YouTube's, ClaudeProvider for a link when it is configured.
Answers(input, env) ==
    [ youtube |-> env.youtube,
      claude |-> /\ env.sessionKey \/ env.cookiesFile
                 /\ \E h \in HandledInputs : h.input = input /\ h.link,
      pdf |-> \E h \in HandledInputs : h.input = input /\ h.pdf,
      article |-> \E h \in HandledInputs : h.input = input /\ h.article ]

\* The positions of the providers of a list that can handle the input.
AcceptingIn(list, answers) == { i \in DOMAIN list : answers[list[i]] }

Accepting(list, input, env) == AcceptingIn(list, Answers(input, env))

\* answer is the earliest registered provider of the list that can handle
\* the input, null when there is none.
EarliestAccepting(list, input, env, answer) ==
    IF Accepting(list, input, env) = {} THEN answer = NoRec
    ELSE /\ answer.index \in Accepting(list, input, env)
         /\ \A i \in Accepting(list, input, env) : answer.index <= i
         /\ answer.name = list[answer.index]

\* With the startup order, the answer is the catch-all only if none of the
\* three providers before it can handle the input.
SpecificWins(list, input, env, answer) ==
    (list = STARTUP_ORDER /\ \E i \in 1..3 : i \in Accepting(list, input, env))
        => answer # NoRec /\ answer.name # "article"

\* Call c makes the step of a resolve call.
Resolves(c) == pc[c] = "idle" /\ pc'[c] = "done" /\ args'[c].kind = "resolve"

\* The providers registered stay, at their positions.
KeepsProviders ==
    /\ Len(providers') >= Len(providers)
    /\ SubSeq(providers', 1, Len(providers)) = providers

\* C30: after any sequence of register calls, resolve(input) returns the
\* earliest registered provider whose canHandle(input) is true, and null when
\* there is none; a registration removes and reorders nothing; with the
\* startup order YouTube, Claude, Pdf, Article a provider before the catch-all
\* ArticleProvider that can handle the input is the one returned.
C30_EarliestProviderWins ==
    [][ /\ KeepsProviders
        /\ \A c \in Calls :
              Resolves(c)
                  => /\ EarliestAccepting(providers, args'[c].input, args'[c].env,
                                          result'[c].value.provider)
                     /\ SpecificWins(providers, args'[c].input, args'[c].env,
                                     result'[c].value.provider) ]_vars

\* With the startup order and a session key, the chat link is given to the
\* Claude provider, registered second, though the catch-all accepts it too.
C30_Witness ==
    \E c \in Calls :
        /\ Done(c) /\ args[c].kind = "resolve"
        /\ providers = STARTUP_ORDER
        /\ args[c].input = CLAUDE_CHAT_URL
        /\ args[c].env.sessionKey /\ ~args[c].env.youtube
        /\ Answers(args[c].input, args[c].env).article
        /\ result[c].value.provider = [ name |-> "claude", index |-> 2 ]

\* No provider of the startup order accepts an ftp URL: the answer is null.
C30_WitnessNull ==
    \E c \in Calls :
        /\ Done(c) /\ args[c].kind = "resolve"
        /\ providers = STARTUP_ORDER
        /\ ~args[c].env.youtube
        /\ StartsWith(args[c].input, << "f","t","p" >>)
        /\ result[c].value.provider = NoRec

====
